---- MODULE Spec2Model ----
(***************************************************************************)
(* FlatFinder: the financial eligibility and listing-match engine.         *)
(*                                                                         *)
(*   calculate_grant, get_marker_color                                     *)
(*       flatfinder/backend/controllers/listing_calculator (CPython 3.11   *)
(*       bytecode; the operators below follow the bytecode instruction by  *)
(*       instruction)                                                      *)
(*   getInterestRate                                                       *)
(*       flatfinder/view/auth/SignUpScreen.js                              *)
(*                                                                         *)
(* Amounts are whole dollars.  On whole-dollar amounts below 2^53 the      *)
(* double arithmetic of the code is exact (sums and differences are        *)
(* integers, and preferred_price * 1.05 is within 1e-9 of the real product *)
(* and equal to it when the product is a whole number), so the comparison  *)
(* with preferred_price * 1.05 is modelled as the comparison of            *)
(* 20 * adjusted_price with 21 * preferred_price.                          *)
(***************************************************************************)
EXTENDS Integers, Sequences, FiniteSets, TLC

VARIABLES
    req,      \* the call in flight: the function and its arguments
    pc,       \* "call" before the function ran, "done" after
    exc,      \* "" or the name of the exception the call raised
    color,    \* return value of get_marker_color ("" when none)
    grant,    \* locals of calculate_grant at its return
    rate,     \* return value of getInterestRate ("" when none)
    prefs,    \* EditPreferencesScreen: its state hooks and its requests in flight
    focus,    \* the screen on top of the navigation stack ("" when none is modelled)
    nav,      \* the last navigation.navigate call of a handler
    signup,   \* SignUpScreen: its state hooks and its request in flight
    change,   \* ChangePasswordScreen: its state hooks and its request in flight
    reset,    \* ResetPasswordScreen: its state hooks, request, timer and e-mails sent
    login,    \* LoginScreen: its state hooks, the handler's position and AsyncStorage
    home,     \* HomeScreen: its state hooks and its fetchApartments runs
    images    \* AsyncStorage 'globalAssignedImages' and the run of fetchSavedListings

engine  == <<req, pc, exc, color, grant, rate>>
screens == <<prefs, focus, nav, signup, change, reset, login, home, images>>
vars    == <<req, pc, exc, color, grant, rate, prefs, focus, nav, signup, change, reset, login,
             home, images>>

----------------------------------------------------------------------------
(* Bounds of the input sets.                                               *)

MaxPrefK    == 5      \* preferred_price in 0, 100000, .., MaxPrefK * 100000
MaxListingK == 92     \* listing_price in 0, 5000, .., MaxListingK * 5000 (+1)
MaxCpfK     == 1      \* cpf_oa_balance in 0, 20000, .., MaxCpfK * 20000
MaxTenure   == 7      \* loanTenure in 0 .. MaxTenure
MaxInFlight == 1      \* POSTs of the preferences screen awaiting their response
MaxPad      == 5      \* filler characters in front of a password text
MaxListings == 2      \* listings the service returns for an estate
MaxFetches  == 1      \* fetchApartments runs suspended at an await
NumImages   == 2      \* entries of propertyimages.json
MaxSaved    == 2      \* saved listings of a user
MaxClicks   == 1      \* marker clicks and compare presses still being handled

----------------------------------------------------------------------------
(* Python and JavaScript values.                                           *)

PyNum(n) == [type |-> "float", num |-> n, str |-> <<>>]
PyStr(s) == [type |-> "str", num |-> 0, str |-> s]
PyNone   == [type |-> "NoneType", num |-> 0, str |-> <<>>]

JsNum(n)    == [type |-> "number", num |-> n]
JsUndefined == [type |-> "undefined", num |-> 0]

DigitChars == {"0", "1", "2", "3", "4", "5", "6", "7", "8", "9"}

DigitValue(c) ==
    CASE c = "0" -> 0 [] c = "1" -> 1 [] c = "2" -> 2 [] c = "3" -> 3
      [] c = "4" -> 4 [] c = "5" -> 5 [] c = "6" -> 6 [] c = "7" -> 7
      [] c = "8" -> 8 [] c = "9" -> 9

IsDigits(s) == Len(s) > 0 /\ \A i \in 1..Len(s) : s[i] \in DigitChars

RECURSIVE DigitsToNat(_)
DigitsToNat(s) ==
    IF s = <<>> THEN 0
    ELSE 10 * DigitsToNat(SubSeq(s, 1, Len(s) - 1)) + DigitValue(s[Len(s)])

(* A parse that accepts non-negative numbers only.                         *)
float_non_negative(x) ==
    IF x.type = "float" THEN
        IF x.num < 0 THEN [exc |-> "ValueError", num |-> 0]
        ELSE [exc |-> "", num |-> x.num]
    ELSE IF x.type = "str" THEN
        IF IsDigits(x.str) THEN [exc |-> "", num |-> DigitsToNat(x.str)]
        ELSE [exc |-> "ValueError", num |-> 0]
    ELSE [exc |-> "TypeError", num |-> 0]

(* float(x): a number is returned as it is, a string is parsed (an optional *)
(* minus sign and decimal digits are the literals of the input sets; any    *)
(* other string raises ValueError), anything else raises TypeError.         *)
float(x) ==
    IF x.type = "float" THEN [exc |-> "", num |-> x.num]
    ELSE IF x.type = "str" THEN
        IF IsDigits(x.str) THEN [exc |-> "", num |-> DigitsToNat(x.str)]
        ELSE IF Len(x.str) > 1 /\ x.str[1] = "-" /\ IsDigits(Tail(x.str))
            THEN [exc |-> "", num |-> 0 - DigitsToNat(Tail(x.str))]
        ELSE [exc |-> "ValueError", num |-> 0]
    ELSE [exc |-> "TypeError", num |-> 0]

(* salary <= n in Python: defined between numbers, TypeError otherwise.    *)
PyLeqInt(x, n) ==
    IF x.type = "float" THEN [exc |-> "", val |-> x.num <= n]
    ELSE [exc |-> "TypeError", val |-> FALSE]

----------------------------------------------------------------------------
(* listing_calculator.calculate_grant                                      *)

SinglesIncomeCeiling  == 7000
EnhancedIncomeCeiling == 4500
SinglesGrantSmallFlat == 40000
SinglesGrantFiveRoom  == 25000
EnhancedGrant         == 60000

SmallFlatTypes == {"2-Room", "3-Room", "4-Room"}

NoGrant == [exc |-> "", singles_grant |-> 0, enhanced_grant |-> 0, total_grant |-> 0]

(* The rule of the preferences screen in place of the backend's.          *)
singles_grant_screen_rule(flat_type) ==
    IF flat_type = "5-Room" \/ flat_type = "Executive" THEN SinglesGrantFiveRoom
    ELSE SinglesGrantSmallFlat

singles_grant_of(flat_type) ==
    IF flat_type \in SmallFlatTypes THEN SinglesGrantSmallFlat
    ELSE IF flat_type = "5-Room" THEN SinglesGrantFiveRoom
    ELSE 0

(* The salary test with < in place of <=.                                  *)
enhanced_grant_strict(salary) ==
    IF salary.num < EnhancedIncomeCeiling THEN EnhancedGrant ELSE 0

enhanced_grant_of(salary) ==
    IF salary.num <= EnhancedIncomeCeiling THEN EnhancedGrant ELSE 0

(* The sum with the enhanced grant left out.                               *)
total_grant_singles_only(singles_grant, enhanced_grant) == singles_grant

total_grant_of(singles_grant, enhanced_grant) == singles_grant + enhanced_grant

(* calculate_grant without the outer salary <= 7000 test.                  *)
calculate_grant_ungated(salary, flat_type) ==
    LET eligible == PyLeqInt(salary, SinglesIncomeCeiling)
        singles  == singles_grant_of(flat_type)
        enhanced == enhanced_grant_of(salary)
    IN  IF eligible.exc # "" THEN [NoGrant EXCEPT !.exc = eligible.exc]
        ELSE [exc            |-> "",
              singles_grant  |-> singles,
              enhanced_grant |-> enhanced,
              total_grant    |-> total_grant_of(singles, enhanced)]

(* singles_grant = 0; enhanced_grant = 0                                   *)
(* if salary <= 7000:                                                      *)
(*     if flat_type in ("2-Room", "3-Room", "4-Room"): singles_grant = 40000 *)
(*     elif flat_type == "5-Room": singles_grant = 25000                   *)
(*     if salary <= 4500: enhanced_grant = 60000                           *)
(* total_grant = singles_grant + enhanced_grant; return total_grant        *)
calculate_grant(salary, flat_type) ==
    LET eligible == PyLeqInt(salary, SinglesIncomeCeiling)
        singles  == IF eligible.val THEN singles_grant_of(flat_type) ELSE 0
        enhanced == IF eligible.val THEN enhanced_grant_of(salary) ELSE 0
    IN  IF eligible.exc # "" THEN [NoGrant EXCEPT !.exc = eligible.exc]
        ELSE [exc            |-> "",
              singles_grant  |-> singles,
              enhanced_grant |-> enhanced,
              total_grant    |-> total_grant_of(singles, enhanced)]

----------------------------------------------------------------------------
(* listing_calculator.get_marker_color                                     *)

TolNum == 21   \* 1.05 = TolNum / TolDen
TolDen == 20

(* The adjusted price with the CPF balance added instead of taken off.     *)
adjusted_price_plus_cpf(preferred_price, listing_price, total_grant, cpf_oa_balance) ==
    listing_price - total_grant + cpf_oa_balance

(* The adjusted price with the CPF balance left out.                       *)
adjusted_price_without_cpf(preferred_price, listing_price, total_grant, cpf_oa_balance) ==
    listing_price - total_grant

adjusted_price_of(preferred_price, listing_price, total_grant, cpf_oa_balance) ==
    listing_price - total_grant - cpf_oa_balance

(* The band with red and yellow exchanged.                                 *)
band_yellow_beyond_tolerance(adjusted_price, preferred_price) ==
    IF adjusted_price <= preferred_price THEN "green"
    ELSE IF preferred_price < adjusted_price
            /\ TolDen * adjusted_price <= TolNum * preferred_price THEN "red"
    ELSE "yellow"

(* The band with the operands of the comparisons exchanged.                *)
band_swapped(adjusted_price, preferred_price) ==
    IF preferred_price <= adjusted_price THEN "green"
    ELSE IF adjusted_price < preferred_price
            /\ TolDen * preferred_price <= TolNum * adjusted_price THEN "yellow"
    ELSE "red"

(* The band with < in place of <= in the green test.                       *)
band_strict(adjusted_price, preferred_price) ==
    IF adjusted_price < preferred_price THEN "green"
    ELSE IF TolDen * adjusted_price <= TolNum * preferred_price THEN "yellow"
    ELSE "red"

(* if adjusted_price <= preferred_price: "green"                           *)
(* elif preferred_price < adjusted_price <= preferred_price * 1.05: "yellow" *)
(* else: "red"                                                             *)
band(adjusted_price, preferred_price) ==
    IF adjusted_price <= preferred_price THEN "green"
    ELSE IF preferred_price < adjusted_price
            /\ TolDen * adjusted_price <= TolNum * preferred_price THEN "yellow"
    ELSE "red"

(* The three float() calls run in order inside try/except ValueError; the  *)
(* first one that raises decides: ValueError returns "gray", any other     *)
(* exception leaves the function.  salary is passed to calculate_grant as  *)
(* it came in, outside the try block.                                      *)
get_marker_color(preferred_price, listing_price, salary, flat_type, cpf_oa_balance) ==
    LET p == float(preferred_price)
        l == float(listing_price)
        c == float(cpf_oa_balance)
        parseExc == IF p.exc # "" THEN p.exc
                    ELSE IF l.exc # "" THEN l.exc
                    ELSE c.exc
        g == calculate_grant(salary, flat_type)
    IN  IF parseExc = "ValueError" THEN [exc |-> "", color |-> "gray", grant |-> NoGrant]
        ELSE IF parseExc # "" THEN [exc |-> parseExc, color |-> "", grant |-> NoGrant]
        ELSE IF g.exc # "" THEN [exc |-> g.exc, color |-> "", grant |-> NoGrant]
        ELSE [exc   |-> "",
              color |-> band(adjusted_price_of(p.num, l.num, g.total_grant, c.num), p.num),
              grant |-> g]

----------------------------------------------------------------------------
(* SignUpScreen.js getInterestRate                                         *)

FixedYears == 5

(* The tenure test with < in place of <=.                                  *)
JsLeqStrict(x, n) == x.type = "number" /\ x.num < n

(* loanTenure <= 5 in JavaScript: undefined converts to NaN, and every     *)
(* comparison with NaN is false.                                           *)
JsLeq(x, n) == x.type = "number" /\ x.num <= n

(* The HDB loan compared with a name the pickers never produce.           *)
getInterestRate_hdb_misnamed(loanType, loanTenure) ==
    IF loanType = "HDB Loan" THEN "2.6% per annum"
    ELSE IF loanType = "DBS 5 Year Fixed Package" THEN
        IF JsLeq(loanTenure, FixedYears) THEN "2.5% per annum for the first 5 years"
        ELSE "2.5% per annum for the first 5 years, then 4.48% per annum"
    ELSE "Unknown Loan Type"

(* The DBS branch taken by every loan type that is not the HDB loan.       *)
getInterestRate_dbs_by_default(loanType, loanTenure) ==
    IF loanType = "HDB Housing Loan" THEN "2.6% per annum"
    ELSE IF JsLeq(loanTenure, FixedYears) THEN "2.5% per annum for the first 5 years"
    ELSE "2.5% per annum for the first 5 years, then 4.48% per annum"

getInterestRate(loanType, loanTenure) ==
    IF loanType = "HDB Housing Loan" THEN "2.6% per annum"
    ELSE IF loanType = "DBS 5 Year Fixed Package" THEN
        IF JsLeq(loanTenure, FixedYears) THEN "2.5% per annum for the first 5 years"
        ELSE "2.5% per annum for the first 5 years, then 4.48% per annum"
    ELSE "Unknown Loan Type"

----------------------------------------------------------------------------
(* JavaScript strings are sequences of one-character strings.              *)

S_0       == <<"0">>
S_abc     == <<"a", "b", "c">>
S_7000    == <<"7", "0", "0", "0">>
S_7000_01 == <<"7", "0", "0", "0", ".", "0", "1">>
S_7000_001 == <<"7", "0", "0", "0", ".", "0", "0", "1">>
S_7001abc == <<"7", "0", "0", "1", "a", "b", "c">>
S_sp7001  == <<" ", "7", "0", "0", "1">>
S_20000   == <<"2", "0", "0", "0", "0">>
S_0_00    == <<"0", ".", "0", "0">>
S_neg5    == <<"-", "5">>
S_199999_99 == <<"1", "9", "9", "9", "9", "9", ".", "9", "9">>
S_200000  == <<"2", "0", "0", "0", "0", "0">>
S_200000dot == <<"2", "0", "0", "0", "0", "0", ".">>

(* The number of leading characters of s that are decimal digits.          *)
DigitRun(s) ==
    CHOOSE k \in 0..Len(s) :
        /\ \A i \in 1..k : s[i] \in DigitChars
        /\ (k = Len(s) \/ s[k + 1] \notin DigitChars)

(* The number of leading characters of s that are white space.             *)
SpaceRun(s) ==
    CHOOSE k \in 0..Len(s) :
        /\ \A i \in 1..k : s[i] = " "
        /\ (k = Len(s) \/ s[k + 1] # " ")

Drop(s, k) == SubSeq(s, k + 1, Len(s))

(* The first three fraction digits as thousandths.                         *)
FracMilli(d) == DigitsToNat(SubSeq(d \o <<"0", "0", "0">>, 1, 3))

NaN == [nan |-> TRUE, milli |-> 0]

(* parseFloat(s): white space is skipped, then the longest prefix of the   *)
(* form [+-] digits [. digits] is converted (at least one digit); NaN when *)
(* there is none.  Values are kept in thousandths; the texts of the model  *)
(* have at most three fraction digits and no exponent.                     *)
parseFloat(s) ==
    LET t     == Drop(s, SpaceRun(s))
        neg   == Len(t) > 0 /\ t[1] = "-"
        u     == IF Len(t) > 0 /\ t[1] \in {"-", "+"} THEN Tail(t) ELSE t
        n     == DigitRun(u)
        afterInt == Drop(u, n)
        hasDot == Len(afterInt) > 0 /\ afterInt[1] = "."
        fracAll == IF hasDot THEN Tail(afterInt) ELSE <<>>
        m     == DigitRun(fracAll)
        mag   == 1000 * DigitsToNat(SubSeq(u, 1, n)) + FracMilli(SubSeq(fracAll, 1, m))
    IN  IF n = 0 /\ m = 0 THEN NaN
        ELSE [nan |-> FALSE, milli |-> IF neg THEN 0 - mag ELSE mag]

(* Comparisons of a number with a whole constant; all false on NaN.        *)
JsGt(x, n)  == ~x.nan /\ x.milli > 1000 * n
JsLt(x, n)  == ~x.nan /\ x.milli < 1000 * n
JsLe(x, n)  == ~x.nan /\ x.milli <= 1000 * n

----------------------------------------------------------------------------
(* EditPreferencesScreen (src/unnamed/part_000)                            *)

HdbLoanSalaryCeiling == 7000
MinPreferredPrice    == 200000

(* /^\d+(\.\d{1,2})?$/ with any number of fraction digits accepted.        *)
isValidDecimal_any_fraction(value) ==
    LET n == DigitRun(value)
        rest == Drop(value, n)
    IN  /\ n >= 1
        /\ \/ rest = <<>>
           \/ /\ rest[1] = "."
              /\ Len(rest) >= 2
              /\ DigitRun(Tail(rest)) = Len(rest) - 1

(* /^\d+(\.\d{1,2})?$/.test(value)                                         *)
isValidDecimal(value) ==
    LET n == DigitRun(value)
        rest == Drop(value, n)
    IN  /\ n >= 1
        /\ \/ rest = <<>>
           \/ /\ rest[1] = "."
              /\ Len(rest) - 1 \in 1..2
              /\ DigitRun(Tail(rest)) = Len(rest) - 1

ErrFillAll   == "Please fill out all fields."
ErrHdbLoan   == "HDB Loan is only allowed if salary is less than or equal to 7000."
ErrMinPrice  == "Preferred price must be $200,000 or more."
ErrSalary    == "Salary must be a positive number with up to 2 decimal places."
ErrCpf       == "CPF Balance must be a positive number with up to 2 decimal places."
ErrPreferred == "Preferred Price must be a positive number with up to 2 decimal places."

(* The validation of handleSavePreferences with the minimum-price test     *)
(* left out.                                                               *)
savePreferencesError_no_minimum(p) ==
    IF p.salary = <<>> \/ p.cpfBalance = <<>> \/ p.hdbType = "" \/ p.preferredPrice = <<>>
          \/ p.housingLoanType = "" THEN ErrFillAll
    ELSE IF p.housingLoanType = "HDB Housing Loan"
              /\ JsGt(parseFloat(p.salary), HdbLoanSalaryCeiling) THEN ErrHdbLoan
    ELSE IF ~isValidDecimal(p.salary) \/ JsLe(parseFloat(p.salary), 0) THEN ErrSalary
    ELSE IF ~isValidDecimal(p.cpfBalance) \/ JsLe(parseFloat(p.cpfBalance), 0) THEN ErrCpf
    ELSE IF ~isValidDecimal(p.preferredPrice) \/ JsLe(parseFloat(p.preferredPrice), 0)
        THEN ErrPreferred
    ELSE ""

(* The validation of handleSavePreferences: the message of the first test  *)
(* that fails, in the order of the code, or "" when all pass.              *)
savePreferencesError(p) ==
    IF p.salary = <<>> \/ p.cpfBalance = <<>> \/ p.hdbType = "" \/ p.preferredPrice = <<>>
          \/ p.housingLoanType = "" THEN ErrFillAll
    ELSE IF p.housingLoanType = "HDB Housing Loan"
              /\ JsGt(parseFloat(p.salary), HdbLoanSalaryCeiling) THEN ErrHdbLoan
    ELSE IF ~isValidDecimal(p.preferredPrice)
              \/ JsLt(parseFloat(p.preferredPrice), MinPreferredPrice) THEN ErrMinPrice
    ELSE IF ~isValidDecimal(p.salary) \/ JsLe(parseFloat(p.salary), 0) THEN ErrSalary
    ELSE IF ~isValidDecimal(p.cpfBalance) \/ JsLe(parseFloat(p.cpfBalance), 0) THEN ErrCpf
    ELSE IF ~isValidDecimal(p.preferredPrice) \/ JsLe(parseFloat(p.preferredPrice), 0)
        THEN ErrPreferred
    ELSE ""

(* updatedData, the body of the POST.                                      *)
updatedData(p) ==
    [salary            |-> parseFloat(p.salary).milli,
     cpf_balance       |-> parseFloat(p.cpfBalance).milli,
     hdb_type          |-> p.hdbType,
     preferred_price   |-> parseFloat(p.preferredPrice).milli,
     housing_loan_type |-> p.housingLoanType]

SalaryTexts    == {<<>>, S_0, S_abc, S_7000, S_7000_01, S_7000_001, S_7001abc, S_sp7001}
CpfTexts       == {<<>>, S_0, S_0_00, S_20000, S_neg5}
PreferredTexts == {<<>>, S_0, S_199999_99, S_200000, S_200000dot}
HdbTypeItems   == {"", "4-Room"}
LoanTypeItems  == {"", "HDB Housing Loan", "DBS 5 Year Fixed Package"}

PrefsInitial ==
    [editMode |-> FALSE, salary |-> S_0, cpfBalance |-> S_0, hdbType |-> "",
     preferredPrice |-> S_0, housingLoanType |-> "", errorMessage |-> "",
     posts |-> <<>>]

(* The Edit / Save button while the screen shows "Edit Preferences".       *)
PressEditPreferences ==
    /\ ~prefs.editMode
    /\ prefs' = [prefs EXCEPT !.editMode = TRUE]
    /\ UNCHANGED <<engine, focus, nav, signup, change, reset, login, home, images>>

(* The inputs and pickers are editable in edit mode only.                  *)
SetSalary ==
    /\ prefs.editMode
    /\ \E t \in SalaryTexts : prefs' = [prefs EXCEPT !.salary = t]
    /\ UNCHANGED <<engine, focus, nav, signup, change, reset, login, home, images>>

SetCpfBalance ==
    /\ prefs.editMode
    /\ \E t \in CpfTexts : prefs' = [prefs EXCEPT !.cpfBalance = t]
    /\ UNCHANGED <<engine, focus, nav, signup, change, reset, login, home, images>>

SetPreferredPrice ==
    /\ prefs.editMode
    /\ \E t \in PreferredTexts : prefs' = [prefs EXCEPT !.preferredPrice = t]
    /\ UNCHANGED <<engine, focus, nav, signup, change, reset, login, home, images>>

SetHdbType ==
    /\ prefs.editMode
    /\ \E v \in HdbTypeItems : prefs' = [prefs EXCEPT !.hdbType = v]
    /\ UNCHANGED <<engine, focus, nav, signup, change, reset, login, home, images>>

SetHousingLoanType ==
    /\ prefs.editMode
    /\ \E v \in LoanTypeItems : prefs' = [prefs EXCEPT !.housingLoanType = v]
    /\ UNCHANGED <<engine, focus, nav, signup, change, reset, login, home, images>>

(* handleSavePreferences up to its await: the Save button in edit mode.    *)
HandleSavePreferences ==
    /\ prefs.editMode
    /\ LET err == savePreferencesError(prefs)
       IN  /\ err = "" => Len(prefs.posts) < MaxInFlight
           /\ prefs' = IF err # "" THEN [prefs EXCEPT !.errorMessage = err]
                        ELSE [prefs EXCEPT !.errorMessage = "",
                                           !.posts = Append(@, updatedData(prefs))]
    /\ UNCHANGED <<engine, focus, nav, signup, change, reset, login, home, images>>

(* handleSavePreferences after its await: the response to the oldest POST. *)
SavePreferencesResponse ==
    /\ prefs.posts # <<>>
    /\ \E ok \in BOOLEAN :
          prefs' = IF ok THEN [prefs EXCEPT !.posts = Tail(@), !.editMode = FALSE]
                   ELSE [prefs EXCEPT !.posts = Tail(@)]
    /\ UNCHANGED <<engine, focus, nav, signup, change, reset, login, home, images>>

----------------------------------------------------------------------------
(* Passwords and e-mail addresses of the sign-up, change-password, login   *)
(* and reset-password screens.                                             *)

UpperChars == {"A", "B", "C", "D", "E", "F", "G", "H", "I", "J", "K", "L", "M",
               "N", "O", "P", "Q", "R", "S", "T", "U", "V", "W", "X", "Y", "Z"}
LowerChars == {"a", "b", "c", "d", "e", "f", "g", "h", "i", "j", "k", "l", "m",
               "n", "o", "p", "q", "r", "s", "t", "u", "v", "w", "x", "y", "z"}
SpecialChars == {"!", "@", "#", "$", "%", "^", "&", "*", "(", ")", ",", ".", "?",
                 "\"", ":", "{", "}", "|", "<", ">"}

MinPasswordLength == 8

(* /[...]/.test(text): some character of the text is in the class.         *)
RegexTest(class, text) == \E i \in 1..Len(text) : text[i] \in class

(* Password texts: n filler characters that belong to no class, followed   *)
(* by one character of each class of a list.                               *)
PasswordText(n, tail) == [i \in 1..n |-> "_"] \o tail

PasswordTails ==
    {<<>>, <<"Q", "w", "7", "?">>, <<"w", "7", "?">>, <<"Q", "7", "?">>,
     <<"Q", "w", "?">>, <<"Q", "w", "7">>}

PasswordTexts == {PasswordText(n, t) : n \in 0..MaxPad, t \in PasswordTails}

E_gmail == <<"a", "@", "g", "m", "a", "i", "l", ".", "c", "o", "m">>
E_other == <<"a", "@", "x", ".", "o", "r", "g">>

EmailTexts == {<<>>, E_gmail, E_other}

allowedDomains ==
    {<<"g", "m", "a", "i", "l", ".", "c", "o", "m">>,
     <<"y", "a", "h", "o", "o", ".", "c", "o", "m">>,
     <<"o", "u", "t", "l", "o", "o", "k", ".", "c", "o", "m">>}

(* The positions of "@" in a text.                                         *)
AtPositions(text) == {i \in 1..Len(text) : text[i] = "@"}

(* allowedDomains.includes(email.split('@')[1]): the piece between the     *)
(* first "@" and the next one (or the end); undefined, which is in no      *)
(* list, when the text has no "@".                                         *)
DomainAllowed(email) ==
    /\ AtPositions(email) # {}
    /\ LET first == CHOOSE i \in AtPositions(email) : \A j \in AtPositions(email) : i <= j
           later == {j \in AtPositions(email) : j > first} \cup {Len(email) + 1}
           next  == CHOOSE j \in later : \A k \in later : j <= k
       IN  SubSeq(email, first + 1, next - 1) \in allowedDomains

(* A navigation.navigate call: the route, its email parameter and the      *)
(* handler that made it.                                                   *)
Navigate(route, email, handler) == [to |-> route, email |-> email, by |-> handler]

NoNav == Navigate("", <<>>, "")

----------------------------------------------------------------------------
(* SignUpScreen (src/flatfinder/view/auth/SignUpScreen.js)                 *)

SignupInitial ==
    [email |-> <<>>, password |-> <<>>, confirmPassword |-> <<>>,
     loading |-> FALSE, inflight |-> <<>>]

(* The password tests of handleSignup with the number test left out.       *)
signupPasswordOk_no_digit(password, confirmPassword) ==
    /\ password = confirmPassword
    /\ ~(Len(password) < MinPasswordLength)
    /\ RegexTest(UpperChars, password)
    /\ RegexTest(LowerChars, password)
    /\ RegexTest(SpecialChars, password)

(* The password tests of handleSignup: none of them alerts and returns.    *)
signupPasswordOk(password, confirmPassword) ==
    /\ password = confirmPassword
    /\ ~(Len(password) < MinPasswordLength)
    /\ RegexTest(UpperChars, password)
    /\ RegexTest(LowerChars, password)
    /\ RegexTest(SpecialChars, password)
    /\ RegexTest(DigitChars, password)

(* handleSignup with the setLoading(false) of the e-mail test left out.    *)
handleSignupSync_email_keeps_loading(s, online, isEmail) ==
    IF ~online THEN [s EXCEPT !.loading = FALSE]
    ELSE IF ~isEmail \/ ~DomainAllowed(s.email) THEN [s EXCEPT !.loading = TRUE]
    ELSE IF ~signupPasswordOk(s.password, s.confirmPassword) THEN [s EXCEPT !.loading = FALSE]
    ELSE [s EXCEPT !.loading = TRUE,
                   !.inflight = <<[email |-> s.email, password |-> s.password]>>]

(* handleSignup up to its await: setLoading(true), then every test that    *)
(* fails alerts, calls setLoading(false) and returns; when all pass the    *)
(* POST to /signup leaves with loading still true.                         *)
handleSignupSync(s, online, isEmail) ==
    IF ~online THEN [s EXCEPT !.loading = FALSE]
    ELSE IF ~isEmail \/ ~DomainAllowed(s.email) THEN [s EXCEPT !.loading = FALSE]
    ELSE IF ~signupPasswordOk(s.password, s.confirmPassword) THEN [s EXCEPT !.loading = FALSE]
    ELSE [s EXCEPT !.loading = TRUE,
                   !.inflight = <<[email |-> s.email, password |-> s.password]>>]

SetSignupEmail ==
    /\ focus = "Signup"
    /\ \E t \in EmailTexts : signup' = [signup EXCEPT !.email = t]
    /\ UNCHANGED <<engine, prefs, focus, nav, change, reset, login, home, images>>

SetSignupPassword ==
    /\ focus = "Signup"
    /\ \E t \in PasswordTexts : signup' = [signup EXCEPT !.password = t]
    /\ UNCHANGED <<engine, prefs, focus, nav, change, reset, login, home, images>>

SetSignupConfirmPassword ==
    /\ focus = "Signup"
    /\ \E t \in PasswordTexts : signup' = [signup EXCEPT !.confirmPassword = t]
    /\ UNCHANGED <<engine, prefs, focus, nav, change, reset, login, home, images>>

(* The "Create an account" button, disabled while loading.  navigator.onLine *)
(* and the verdict of validator.isEmail come from outside.                 *)
HandleSignup ==
    /\ focus = "Signup"
    /\ ~signup.loading
    /\ \E online \in BOOLEAN, isEmail \in BOOLEAN :
          signup' = handleSignupSync(signup, online, isEmail)
    /\ UNCHANGED <<engine, prefs, focus, nav, change, reset, login, home, images>>

(* handleSignup after its await: fetch or response.json() throws, the      *)
(* response is not ok (an Error is thrown), or the account was created and *)
(* the handler navigates to Login; finally setLoading(false).              *)
SignupResponse ==
    /\ focus = "Signup"
    /\ signup.inflight # <<>>
    /\ \E outcome \in {"ok", "not ok", "throws"} :
          nav' = IF outcome = "ok" THEN Navigate("Login", <<>>, "handleSignup") ELSE nav
    /\ signup' = [signup EXCEPT !.inflight = <<>>, !.loading = FALSE]
    /\ UNCHANGED <<engine, prefs, focus, change, reset, login, home, images>>

(* The "Log in" link under the button.                                     *)
PressLoginLink ==
    /\ focus = "Signup"
    /\ nav' = Navigate("Login", <<>>, "link")
    /\ UNCHANGED <<engine, prefs, focus, signup, change, reset, login, home, images>>

----------------------------------------------------------------------------
(* ChangePasswordScreen (src/unnamed/part_001)                             *)

ChangeInitial ==
    [email |-> E_gmail, newPassword |-> <<>>, confirmPassword |-> <<>>,
     loading |-> FALSE, inflight |-> <<>>]

(* The tests of handleChangePassword with the special-character test left  *)
(* out.                                                                    *)
changePasswordOk_no_special(newPassword, confirmPassword) ==
    /\ newPassword # <<>> /\ confirmPassword # <<>>
    /\ newPassword = confirmPassword
    /\ ~(Len(newPassword) < MinPasswordLength)
    /\ RegexTest(UpperChars, newPassword)
    /\ RegexTest(LowerChars, newPassword)
    /\ RegexTest(DigitChars, newPassword)

(* The tests of handleChangePassword: none of them alerts and returns.     *)
changePasswordOk(newPassword, confirmPassword) ==
    /\ newPassword # <<>> /\ confirmPassword # <<>>
    /\ newPassword = confirmPassword
    /\ ~(Len(newPassword) < MinPasswordLength)
    /\ RegexTest(UpperChars, newPassword)
    /\ RegexTest(LowerChars, newPassword)
    /\ RegexTest(SpecialChars, newPassword)
    /\ RegexTest(DigitChars, newPassword)

(* handleChangePassword with the setLoading(false) of the offline branch   *)
(* left out.                                                               *)
handleChangePasswordSync_offline_keeps_loading(c, online) ==
    IF ~changePasswordOk(c.newPassword, c.confirmPassword) THEN c
    ELSE IF ~online THEN [c EXCEPT !.loading = TRUE]
    ELSE [c EXCEPT !.loading = TRUE,
                   !.inflight = <<[email |-> c.email, new_password |-> c.newPassword]>>]

(* handleChangePassword up to its await: a failed test alerts and returns  *)
(* before loading is touched; then setLoading(true); offline alerts, calls *)
(* setLoading(false) and returns; otherwise the POST to /reset-password    *)
(* leaves.                                                                 *)
handleChangePasswordSync(c, online) ==
    IF ~changePasswordOk(c.newPassword, c.confirmPassword) THEN c
    ELSE IF ~online THEN [c EXCEPT !.loading = FALSE]
    ELSE [c EXCEPT !.loading = TRUE,
                   !.inflight = <<[email |-> c.email, new_password |-> c.newPassword]>>]

SetNewPassword ==
    /\ focus = "Change"
    /\ \E t \in PasswordTexts : change' = [change EXCEPT !.newPassword = t]
    /\ UNCHANGED <<engine, prefs, focus, nav, signup, reset, login, home, images>>

SetChangeConfirmPassword ==
    /\ focus = "Change"
    /\ \E t \in PasswordTexts : change' = [change EXCEPT !.confirmPassword = t]
    /\ UNCHANGED <<engine, prefs, focus, nav, signup, reset, login, home, images>>

(* The "Reset Password" button, disabled while loading.                    *)
HandleChangePassword ==
    /\ focus = "Change"
    /\ ~change.loading
    /\ \E online \in BOOLEAN : change' = handleChangePasswordSync(change, online)
    /\ UNCHANGED <<engine, prefs, focus, nav, signup, reset, login, home, images>>

(* handleChangePassword after its await: the password was updated and the  *)
(* handler navigates to Login, the response is not ok, or something threw; *)
(* finally setLoading(false).                                              *)
ChangePasswordResponse ==
    /\ focus = "Change"
    /\ change.inflight # <<>>
    /\ \E outcome \in {"ok", "not ok", "throws"} :
          nav' = IF outcome = "ok" THEN Navigate("Login", <<>>, "handleChangePassword")
                 ELSE nav
    /\ change' = [change EXCEPT !.inflight = <<>>, !.loading = FALSE]
    /\ UNCHANGED <<engine, prefs, focus, signup, reset, login, home, images>>

----------------------------------------------------------------------------
(* ResetPasswordScreen (src/flatfinder/view/auth/ResetPasswordScreen.js)   *)

K_100000 == <<"1", "0", "0", "0", "0", "0">>
K_999999 == <<"9", "9", "9", "9", "9", "9">>
K_99999  == <<"9", "9", "9", "9", "9">>

(* Math.floor(100000 + Math.random() * 900000).toString(): six digits, the *)
(* first one not 0.                                                        *)
GeneratedCodes == {K_100000, K_999999}

(* What the code field can hold (maxLength 6).                             *)
CodeTexts == {<<>>, K_100000, K_999999, K_99999}

(* JSON values of data.exists and their truthiness.                        *)
ExistsValues == {"true", "false", "undefined"}
Truthy(v) == v = "true"

ResetInitial ==
    [email |-> <<>>, verificationCode |-> <<>>, generatedCode |-> <<>>,
     isCodeSent |-> FALSE, loading |-> FALSE, verifying |-> FALSE,
     inflight |-> <<>>, timer |-> <<>>, sent |-> <<>>]

(* The answers of /verify-user: the fetch or response.json() throws, or a  *)
(* response with its ok flag and its data.exists.                          *)
VerifyUserOutcomes ==
    {[throws |-> TRUE, ok |-> FALSE, exists |-> "undefined"]}
        \cup [throws : {FALSE}, ok : BOOLEAN, exists : ExistsValues]

(* The condition of handleSendVerificationCode with data.exists left out.  *)
userVerified_ok_only(outcome) == ~outcome.throws /\ outcome.ok

(* response.ok && data.exists                                              *)
userVerified(outcome) == ~outcome.throws /\ outcome.ok /\ Truthy(outcome.exists)

(* The comparison of handleVerifyCode weakened to the lengths.             *)
codeVerified_by_length(r) == Len(r.verificationCode) = Len(r.generatedCode)

(* verificationCode === generatedCode                                      *)
codeVerified(r) == r.verificationCode = r.generatedCode

SetResetEmail ==
    /\ focus = "Reset"
    /\ \E t \in EmailTexts : reset' = [reset EXCEPT !.email = t]
    /\ UNCHANGED <<engine, prefs, focus, nav, signup, change, login, home, images>>

(* The code field is rendered once isCodeSent is true.                     *)
SetVerificationCode ==
    /\ focus = "Reset"
    /\ reset.isCodeSent
    /\ \E t \in CodeTexts : reset' = [reset EXCEPT !.verificationCode = t]
    /\ UNCHANGED <<engine, prefs, focus, nav, signup, change, login, home, images>>

(* handleSendVerificationCode up to its await; the button is rendered      *)
(* while isCodeSent and loading are false.  An empty email alerts and      *)
(* returns; then setLoading(true); offline alerts, calls setLoading(false) *)
(* and returns; otherwise the POST to /verify-user leaves.                 *)
HandleSendVerificationCode(online) ==
    /\ focus = "Reset"
    /\ ~reset.isCodeSent /\ ~reset.loading
    /\ reset' = IF reset.email = <<>> THEN reset
                ELSE IF ~online THEN [reset EXCEPT !.loading = FALSE]
                ELSE [reset EXCEPT !.loading = TRUE,
                                   !.inflight = <<[email |-> reset.email]>>]
    /\ UNCHANGED <<engine, prefs, focus, nav, signup, change, login, home, images>>

(* handleSendVerificationCode after its await.  For a verified user:       *)
(* generateVerificationCode draws the code and stores it, SendEmail hands  *)
(* it to emailjs for the address of the request, setIsCodeSent(true).      *)
(* Every other answer alerts.  finally setLoading(false).                  *)
VerifyUserResponse(outcome) ==
    /\ focus = "Reset"
    /\ reset.inflight # <<>>
    /\ IF userVerified(outcome)
       THEN \E code \in GeneratedCodes :
               reset' = [reset EXCEPT
                   !.generatedCode = code,
                   !.sent = Append(@, [to_email |-> reset.inflight[1].email, code |-> code]),
                   !.isCodeSent = TRUE,
                   !.inflight = <<>>,
                   !.loading = FALSE]
       ELSE reset' = [reset EXCEPT !.inflight = <<>>, !.loading = FALSE]
    /\ UNCHANGED <<engine, prefs, focus, nav, signup, change, login, home, images>>

(* handleVerifyCode; the button is rendered while isCodeSent is true and   *)
(* verifying is false.  A matching code starts the one-second timer, whose *)
(* callback closes over the email of this render; any other code alerts.   *)
HandleVerifyCode ==
    /\ focus = "Reset"
    /\ reset.isCodeSent /\ ~reset.verifying
    /\ reset' = IF codeVerified(reset)
                THEN [reset EXCEPT !.verifying = TRUE,
                                   !.timer = <<[email |-> reset.email]>>]
                ELSE reset
    /\ UNCHANGED <<engine, prefs, focus, nav, signup, change, login, home, images>>

(* The setTimeout callback of handleVerifyCode.                            *)
VerifyTimerFires ==
    /\ focus = "Reset"
    /\ reset.timer # <<>>
    /\ reset' = [reset EXCEPT !.verifying = FALSE, !.timer = <<>>]
    /\ nav' = Navigate("Change", reset.timer[1].email, "handleVerifyCode")
    /\ UNCHANGED <<engine, prefs, focus, signup, change, login, home, images>>

----------------------------------------------------------------------------
(* LoginScreen (src/unnamed/part_001)                                      *)

LoginPasswordTexts == {<<>>, PasswordText(4, <<"Q", "w", "7", "?">>)}

Tokens == {"token-1", "token-2"}

NoStorage == [authToken |-> "", userEmail |-> <<>>]

NoCall == [email |-> <<>>, password |-> <<>>]

(* pc: the await handleLogin is suspended at ("idle" when it is not        *)
(* running); call: the email and password of the render it was started     *)
(* from; token: data.token; done: the awaits that have succeeded in this   *)
(* run; storage: AsyncStorage.                                             *)
LoginInitial ==
    [email |-> <<>>, password |-> <<>>, errorMessage |-> "", loading |-> FALSE,
     pc |-> "idle", call |-> NoCall, token |-> "", done |-> <<>>,
     storage |-> NoStorage]

(* The order of handleLogin with navigation right after the second         *)
(* AsyncStorage.setItem.                                                   *)
loginAfter_without_custom_token(step) ==
    CASE step = "signIn"      -> "login"
      [] step = "login"       -> "authToken"
      [] step = "authToken"   -> "userEmail"
      [] step = "userEmail"   -> "Home"
      [] step = "customToken" -> "Home"

(* What follows an await of handleLogin that succeeded: the next await, or *)
(* navigation.navigate('Home').                                            *)
loginAfter(step) ==
    CASE step = "signIn"      -> "login"
      [] step = "login"       -> "authToken"
      [] step = "authToken"   -> "userEmail"
      [] step = "userEmail"   -> "customToken"
      [] step = "customToken" -> "Home"

(* The handler leaves through finally: setLoading(false).                  *)
loginFinally(l) == [l EXCEPT !.pc = "idle", !.loading = FALSE]

(* An await of handleLogin succeeded.                                      *)
loginAdvance(l) ==
    LET next == loginAfter(l.pc)
        l2   == [l EXCEPT !.done = Append(@, l.pc)]
    IN  IF next = "Home" THEN loginFinally(l2) ELSE [l2 EXCEPT !.pc = next]

(* The navigation of the code that follows an await: none unless the await *)
(* succeeded and was the last one.                                         *)
loginNavigate(succeeded) ==
    IF succeeded /\ loginAfter(login.pc) = "Home"
    THEN Navigate("Home", <<>>, "handleLogin") ELSE nav

SetLoginEmail ==
    /\ focus = "Login"
    /\ \E t \in EmailTexts : login' = [login EXCEPT !.email = t]
    /\ UNCHANGED <<engine, prefs, focus, nav, signup, change, reset, home, images>>

SetLoginPassword ==
    /\ focus = "Login"
    /\ \E t \in LoginPasswordTexts : login' = [login EXCEPT !.password = t]
    /\ UNCHANGED <<engine, prefs, focus, nav, signup, change, reset, home, images>>

(* The "Reset your password." link.                                        *)
PressResetLink ==
    /\ focus = "Login"
    /\ nav' = Navigate("Reset", <<>>, "link")
    /\ UNCHANGED <<engine, prefs, focus, signup, change, reset, login, home, images>>

(* handleLogin up to its first await; the button is rendered while loading *)
(* is false.  setLoading(true), setErrorMessage(''); offline alerts, calls *)
(* setLoading(false) and returns through finally.                          *)
HandleLogin(online) ==
    /\ focus = "Login"
    /\ ~login.loading
    /\ login' = IF ~online
                THEN loginFinally([login EXCEPT !.errorMessage = "", !.done = <<>>])
                ELSE [login EXCEPT !.errorMessage = "", !.loading = TRUE, !.done = <<>>,
                                   !.pc = "signIn",
                                   !.call = [email    |-> login.email,
                                             password |-> login.password]]
    /\ UNCHANGED <<engine, prefs, focus, nav, signup, change, reset, home, images>>

(* await signInWithEmailAndPassword: it rejects (catch), resolves to a     *)
(* falsy value (the if is skipped) or to the user credential.              *)
SignInResult(outcome) ==
    /\ focus = "Login"
    /\ login.pc = "signIn"
    /\ login' = IF outcome = "credential" THEN loginAdvance(login) ELSE loginFinally(login)
    /\ nav' = loginNavigate(outcome = "credential")
    /\ UNCHANGED <<engine, prefs, focus, signup, change, reset, home, images>>

(* await fetch(/login) and response.json(): something throws, the response *)
(* is not ok (setErrorMessage(data.detail)), or it is ok and carries the   *)
(* token.                                                                  *)
LoginResponse(outcome) ==
    /\ focus = "Login"
    /\ login.pc = "login"
    /\ \/ /\ outcome = "throws"
          /\ login' = loginFinally(login)
       \/ /\ outcome = "not ok"
          /\ login' = loginFinally([login EXCEPT !.errorMessage = "detail"])
       \/ /\ outcome = "ok"
          /\ \E token \in Tokens : login' = loginAdvance([login EXCEPT !.token = token])
    /\ nav' = loginNavigate(outcome = "ok")
    /\ UNCHANGED <<engine, prefs, focus, signup, change, reset, home, images>>

(* await AsyncStorage.setItem('authToken', token)                          *)
StoreAuthToken(stored) ==
    /\ focus = "Login"
    /\ login.pc = "authToken"
    /\ login' = IF stored
                THEN loginAdvance([login EXCEPT !.storage.authToken = login.token])
                ELSE loginFinally(login)
    /\ nav' = loginNavigate(stored)
    /\ UNCHANGED <<engine, prefs, focus, signup, change, reset, home, images>>

(* await AsyncStorage.setItem('userEmail', email)                          *)
StoreUserEmail(stored) ==
    /\ focus = "Login"
    /\ login.pc = "userEmail"
    /\ login' = IF stored
                THEN loginAdvance([login EXCEPT !.storage.userEmail = login.call.email])
                ELSE loginFinally(login)
    /\ nav' = loginNavigate(stored)
    /\ UNCHANGED <<engine, prefs, focus, signup, change, reset, home, images>>

(* await signInWithCustomToken(auth, token), then the alert and            *)
(* navigation.navigate('Home').                                            *)
CustomTokenResult(signedIn) ==
    /\ focus = "Login"
    /\ login.pc = "customToken"
    /\ login' = IF signedIn THEN loginAdvance(login) ELSE loginFinally(login)
    /\ nav' = loginNavigate(signedIn)
    /\ UNCHANGED <<engine, prefs, focus, signup, change, reset, home, images>>

AuthInitial ==
    /\ nav = NoNav
    /\ signup = SignupInitial
    /\ change = ChangeInitial
    /\ reset = ResetInitial
    /\ login = LoginInitial

EngineIdle ==
    /\ req = [op |-> "none"]
    /\ pc = "idle"
    /\ exc = ""
    /\ color = ""
    /\ grant = NoGrant
    /\ rate = ""

----------------------------------------------------------------------------
(* The images of the listings: fetchRoomImage of the HomeScreen            *)
(* (src/flatfinder/view/auth/SignUpScreen.js) and fetchSavedListings of    *)
(* the BookmarksScreen (src/flatfinder/view/settings/BookmarksScreen.js),  *)
(* both on the AsyncStorage item 'globalAssignedImages'.                   *)

Addresses == {"1 Bedok Ave", "2 Bedok Ave", "3 Yishun St"}

(* The indices of propertyImages / images.                                 *)
ImageIndices == 0..(NumImages - 1)

(* What reading a key that the object does not have gives (undefined), and *)
(* the null that fetchRoomImage returns.                                   *)
Absent == -1
NoImage == -2

NoImagesAssigned == [a \in Addresses |-> Absent]

(* assignedImages[addressKey] as a condition: undefined and 0 are falsy.   *)
IndexTruthy(v) == v # Absent /\ v # 0

(* Object.values(assignedImages)                                           *)
ObjectValues(m) == {m[a] : a \in Addresses} \ {Absent}

(* fetchRoomImage choosing among all the indices.                          *)
fetchRoomImage_any_index(m, a) ==
    IF IndexTruthy(m[a]) THEN {[stored |-> m, image |-> m[a]]}
    ELSE LET availableIndices == ImageIndices
         IN  IF availableIndices = {} THEN {[stored |-> m, image |-> NoImage]}
             ELSE {[stored |-> [m EXCEPT ![a] = i], image |-> i] : i \in availableIndices}

(* fetchRoomImage: what it can return and leave in the store; the image is *)
(* named by its index.                                                     *)
fetchRoomImage(m, a) ==
    IF IndexTruthy(m[a]) THEN {[stored |-> m, image |-> m[a]]}
    ELSE LET availableIndices == {i \in ImageIndices : i \notin ObjectValues(m)}
         IN  IF availableIndices = {} THEN {[stored |-> m, image |-> NoImage]}
             ELSE {[stored |-> [m EXCEPT ![a] = i], image |-> i] : i \in availableIndices}

SavedLists == UNION {[1..n -> Addresses] : n \in 0..MaxSaved}

NoReturn == [of |-> "", address |-> "", image |-> NoImage, listings |-> <<>>]

(* stored: the item 'globalAssignedImages'; ret: what the last call        *)
(* returned; the other fields are the locals of the run of                 *)
(* fetchSavedListings, pc its position and at the listing forEach is at.   *)
ImagesInitial ==
    [stored |-> NoImagesAssigned, ret |-> NoReturn, pc |-> "idle",
     listings |-> <<>>, at |-> 0, usedIndices |-> {},
     updatedImages |-> NoImagesAssigned, randomIndex |-> Absent]

(* One call of fetchRoomImage that no other call overlaps.                 *)
FetchRoomImage(a) ==
    /\ focus = "Home"
    /\ images.pc = "idle"
    /\ \E out \in fetchRoomImage(images.stored, a) :
          images' = [images EXCEPT
              !.stored = out.stored,
              !.ret = [of |-> "fetchRoomImage", address |-> a, image |-> out.image,
                       listings |-> <<>>]]
    /\ UNCHANGED <<engine, prefs, focus, nav, signup, change, reset, login, home>>

(* The Bookmarks button of the HomeScreen; focusing the BookmarksScreen    *)
(* starts fetchSavedListings.  The fetch fails or the answer is not ok     *)
(* (catch: alert, return []), or the listings arrive and the stored object *)
(* is read into usedIndices and updatedImages.                             *)
OpenBookmarks ==
    /\ focus = "Home"
    /\ images.pc = "idle"
    /\ focus' = "Bookmarks"
    /\ \/ images' = [images EXCEPT
              !.ret = [NoReturn EXCEPT !.of = "fetchSavedListings"]]
       \/ \E listings \in SavedLists :
             images' = [images EXCEPT
                 !.ret = NoReturn,
                 !.pc = "forEach",
                 !.listings = listings,
                 !.at = 1,
                 !.usedIndices = ObjectValues(images.stored),
                 !.updatedImages = images.stored,
                 !.randomIndex = Absent]
    /\ UNCHANGED <<engine, prefs, nav, signup, change, reset, login, home>>

(* listings.forEach: a listing whose address has a truthy index is passed  *)
(* over, any other one enters the do-while loop.                           *)
ForEachListing ==
    /\ images.pc = "forEach"
    /\ images.at <= Len(images.listings)
    /\ images' = IF IndexTruthy(images.updatedImages[images.listings[images.at]])
                 THEN [images EXCEPT !.at = @ + 1]
                 ELSE [images EXCEPT !.pc = "draw"]
    /\ UNCHANGED <<engine, prefs, focus, nav, signup, change, reset, login, home>>

(* randomIndex = Math.floor(Math.random() * images.length)                 *)
DrawRandomIndex ==
    /\ images.pc = "draw"
    /\ \E i \in ImageIndices : images' = [images EXCEPT !.randomIndex = i, !.pc = "while"]
    /\ UNCHANGED <<engine, prefs, focus, nav, signup, change, reset, login, home>>

(* while (usedIndices.has(randomIndex)): draw again, or assign the index   *)
(* and go on with the next listing.                                        *)
TestRandomIndex ==
    /\ images.pc = "while"
    /\ images' = IF images.randomIndex \in images.usedIndices
                 THEN [images EXCEPT !.pc = "draw"]
                 ELSE [images EXCEPT
                          !.updatedImages[images.listings[images.at]] = images.randomIndex,
                          !.usedIndices = @ \cup {images.randomIndex},
                          !.at = @ + 1,
                          !.pc = "forEach"]
    /\ UNCHANGED <<engine, prefs, focus, nav, signup, change, reset, login, home>>

(* After the loop: AsyncStorage.setItem stores updatedImages and the       *)
(* listings are returned, or setItem rejects and [] is returned.           *)
StoreUpdatedImages ==
    /\ images.pc = "forEach"
    /\ images.at > Len(images.listings)
    /\ \/ images' = [images EXCEPT
              !.stored = images.updatedImages,
              !.ret = [NoReturn EXCEPT !.of = "fetchSavedListings",
                                       !.listings = images.listings],
              !.pc = "idle"]
       \/ images' = [images EXCEPT
              !.ret = [NoReturn EXCEPT !.of = "fetchSavedListings"],
              !.pc = "idle"]
    /\ UNCHANGED <<engine, prefs, focus, nav, signup, change, reset, login, home>>

(* The back button of the BookmarksScreen.                                 *)
BackToHome ==
    /\ focus = "Bookmarks"
    /\ images.pc = "idle"
    /\ focus' = "Home"
    /\ UNCHANGED <<engine, prefs, nav, signup, change, reset, login, home, images>>

----------------------------------------------------------------------------
(* HomeScreen (src/flatfinder/view/auth/SignUpScreen.js from line 266):    *)
(* the listings of an estate and their markers.                            *)

(* Values of a JSON document.                                              *)
JsonStr(s) == [type |-> "string", str |-> s]
JsonNull   == [type |-> "null", str |-> ""]

(* `${value}` of a JSON string or null.                                    *)
TemplateString(v) == IF v.type = "string" THEN v.str ELSE "null"

RECURSIVE NatToDigits(_)
NatToDigits(n) ==
    LET d == CHOOSE c \in DigitChars : DigitValue(c) = n % 10
    IN  IF n < 10 THEN <<d>> ELSE Append(NatToDigits(n \div 10), d)

(* `${item.resale_price}`: the decimal text of a number, a text as it is.  *)
PriceText(v) ==
    IF v.type = "str" THEN v.str
    ELSE IF v.num < 0 THEN <<"-">> \o NatToDigits(-v.num)
    ELSE NatToDigits(v.num)

MarkerGreen  == "../../assets/marker-green.png"
MarkerYellow == "../../assets/marker-yellow.png"
MarkerRed    == "../../assets/marker-red.png"

(* colorMarker with the yellow image for every classified listing that is  *)
(* not green.                                                              *)
colorMarker_red_as_yellow(c) ==
    IF c = "green" THEN MarkerGreen
    ELSE IF c = "yellow" \/ c = "red" THEN MarkerYellow
    ELSE "default"

colorMarker(c) ==
    IF c = "green" THEN MarkerGreen
    ELSE IF c = "yellow" THEN MarkerYellow
    ELSE IF c = "red" THEN MarkerRed
    ELSE "default"

Estates == {"Bedok", "Yishun"}

(* The preferences fetchUserData returns, as the service receives them in  *)
(* the query.                                                              *)
Profiles ==
    [preferred_price : {PyNum(400000)}, salary : {PyNum(4000), PyNum(7001)},
     flat_type : {"4-Room"}, cpf_oa_balance : {PyNum(0)}]

(* Rows of the resale data set: a price, and coordinates that may be       *)
(* missing.                                                                *)
Row(block, price, lat, lng) ==
    [block |-> block, street_name |-> "Bedok Ave", resale_price |-> price,
     latitude |-> lat, longitude |-> lng]

ListingRows ==
    {Row("1", PyNum(500000), "1.32", "103.93"), Row("2", PyNum(520000), "1.32", "103.93"),
     Row("1", PyNum(520001), "1.32", "103.93"), Row("2", PyStr(S_abc), "1.32", "103.93"),
     Row("1", PyNum(500000), "", "")}

RowLists == UNION {[1..n -> ListingRows] : n \in 0..MaxListings}

(* The listing query service (GET /apartments): every row of the estate    *)
(* with the classification of its own price for the profile of the query.  *)
apartments(rows, profile) ==
    [i \in 1..Len(rows) |->
        [block        |-> rows[i].block,
         street_name  |-> rows[i].street_name,
         resale_price |-> rows[i].resale_price,
         latitude     |-> rows[i].latitude,
         longitude    |-> rows[i].longitude,
         color        |-> JsonStr(get_marker_color(profile.preferred_price,
                                                   rows[i].resale_price, profile.salary,
                                                   profile.flat_type,
                                                   profile.cpf_oa_balance).color)]]

(* data.map(item => ({...item, address: `${item.block}                     *)
(* ${item.street_name}`, resale_price: `${item.resale_price}`,             *)
(* color: `${item.color}`}))                                               *)
markersOf(data) ==
    [i \in 1..Len(data) |->
        [address      |-> data[i].block \o " " \o data[i].street_name,
         latitude     |-> data[i].latitude,
         longitude    |-> data[i].longitude,
         resale_price |-> PriceText(data[i].resale_price),
         color        |-> TemplateString(data[i].color)]]

(* The Marker elements of Map: one for every marker with a latitude and a  *)
(* longitude, its icon chosen by colorMarker.                              *)
MarkerIcons(markers) ==
    [i \in {j \in 1..Len(markers) : markers[j].latitude # "" /\ markers[j].longitude # ""}
        |-> colorMarker(markers[i].color)]

(* null as a marker and as apartment details; a marker is named by its     *)
(* address.                                                                *)
NoMarker == ""
NoDetails == [address |-> "", imageUrl |-> NoImage]

RemoveAt(seq, i) == SubSeq(seq, 1, i - 1) \o SubSeq(seq, i + 1, Len(seq))

(* fetches: the runs of fetchApartments suspended at an await; rows and    *)
(* profile: what the answer that set the markers was computed from.        *)
HomeInitial ==
    [selectedEstate |-> "", loading |-> FALSE, markers |-> <<>>, fetches |-> <<>>,
     answered |-> FALSE, rows |-> <<>>,
     profile |-> CHOOSE q \in Profiles : TRUE,
     isCompareMode |-> FALSE, selectedMarker |-> NoMarker, apartmentDetails |-> NoDetails,
     compareMarker |-> NoMarker, compareApartmentDetails |-> NoDetails, clicks |-> <<>>]

(* The estate picker; the effect on selectedEstate starts fetchApartments: *)
(* setLoading(true), then await fetchUserData.                             *)
SelectEstate ==
    /\ focus = "Home"
    /\ Len(home.fetches) < MaxFetches
    /\ \E estate \in Estates \ {home.selectedEstate} :
          home' = [home EXCEPT !.selectedEstate = estate,
                               !.loading = TRUE,
                               !.fetches = Append(@, [at |-> "userData", estate |-> estate,
                                                      profile |-> home.profile])]
    /\ UNCHANGED <<engine, prefs, focus, nav, signup, change, reset, login, images>>

(* await fetchUserData: null (alert, return through finally) or the        *)
(* preferences, with which the GET to /apartments leaves.                  *)
UserDataResult ==
    /\ focus = "Home"
    /\ \E i \in 1..Len(home.fetches) :
          /\ home.fetches[i].at = "userData"
          /\ \/ home' = [home EXCEPT !.fetches = RemoveAt(@, i), !.loading = FALSE]
             \/ \E q \in Profiles :
                   home' = [home EXCEPT !.fetches[i].at = "apartments",
                                        !.fetches[i].profile = q]
    /\ UNCHANGED <<engine, prefs, focus, nav, signup, change, reset, login, images>>

(* await fetch(/apartments) and response.json(): something throws (catch)  *)
(* or the list arrives and setMarkers replaces the markers; finally        *)
(* setLoading(false).                                                      *)
ApartmentsResponse ==
    /\ focus = "Home"
    /\ \E i \in 1..Len(home.fetches) :
          /\ home.fetches[i].at = "apartments"
          /\ \/ home' = [home EXCEPT !.fetches = RemoveAt(@, i), !.loading = FALSE]
             \/ \E rows \in RowLists :
                   home' = [home EXCEPT
                       !.markers = markersOf(apartments(rows, home.fetches[i].profile)),
                       !.answered = TRUE,
                       !.rows = rows,
                       !.profile = home.fetches[i].profile,
                       !.fetches = RemoveAt(@, i),
                       !.loading = FALSE]
    /\ UNCHANGED <<engine, prefs, focus, nav, signup, change, reset, login, images>>

(* The markers of the map that can be clicked: those that are drawn.       *)
DrawnMarkers ==
    {home.markers[i].address : i \in DOMAIN MarkerIcons(home.markers)}

(* A click or press being handled: the handler it is in, its marker        *)
(* argument, the isCompareMode of the render it was made in, the await or  *)
(* timer it is suspended at, and whether it began as a marker click.       *)
ClickRun(handler, marker, origin) ==
    [handler |-> handler, marker |-> marker, isCompareMode |-> home.isCompareMode,
     at |-> "userData", origin |-> origin]

(* handleMarkerClick after await fetchUserData with the test of            *)
(* isCompareMode left out.                                                 *)
afterUserData_ignores_compare_mode(run) == [run EXCEPT !.at = "timer"]

(* What a run does after await fetchUserData returned the user data:       *)
(* handleMarkerClick in compare mode hands the marker to                   *)
(* handleCompareMarkerClick, which starts with its own await               *)
(* fetchUserData; otherwise the handler sets its 500 ms timer.             *)
afterUserData(run) ==
    IF run.handler = "handleMarkerClick"
    THEN IF run.isCompareMode
         THEN [run EXCEPT !.handler = "handleCompareMarkerClick", !.at = "userData"]
         ELSE [run EXCEPT !.at = "timer"]
    ELSE [run EXCEPT !.at = "timer"]

(* onMarkerClick of a Marker: handleMarkerClick up to await fetchUserData. *)
MarkerClick ==
    /\ focus = "Home"
    /\ Len(home.clicks) < MaxClicks
    /\ \E m \in DrawnMarkers :
          home' = [home EXCEPT
              !.clicks = Append(@, ClickRun("handleMarkerClick", m, "marker"))]
    /\ UNCHANGED <<engine, prefs, focus, nav, signup, change, reset, login, images>>

(* The compare button of the side panel, shown outside compare mode:       *)
(* handleCompareMarkerClick(compareMarker) up to await fetchUserData.      *)
PressCompare ==
    /\ focus = "Home"
    /\ Len(home.clicks) < MaxClicks
    /\ home.selectedMarker # NoMarker /\ home.apartmentDetails # NoDetails
    /\ ~home.isCompareMode
    /\ home' = [home EXCEPT
           !.clicks = Append(@, ClickRun("handleCompareMarkerClick", home.compareMarker,
                                         "button"))]
    /\ UNCHANGED <<engine, prefs, focus, nav, signup, change, reset, login, images>>

(* The stop-compare button of the side panel, shown in compare mode:       *)
(* exitCompareMode, with the end of the slideOutCompare animation.         *)
ExitCompareMode ==
    /\ focus = "Home"
    /\ home.selectedMarker # NoMarker /\ home.apartmentDetails # NoDetails
    /\ home.isCompareMode
    /\ home' = [home EXCEPT !.isCompareMode = FALSE, !.compareMarker = NoMarker]
    /\ UNCHANGED <<engine, prefs, focus, nav, signup, change, reset, login, images>>

(* The close button of the side panel: slideOut, with the end of its       *)
(* animation.                                                              *)
SlideOut ==
    /\ focus = "Home"
    /\ home.selectedMarker # NoMarker /\ home.apartmentDetails # NoDetails
    /\ home' = [home EXCEPT !.selectedMarker = NoMarker]
    /\ UNCHANGED <<engine, prefs, focus, nav, signup, change, reset, login, images>>

(* await fetchUserData of run i returns.  null makes the destructuring     *)
(* throw, in handleCompareMarkerClick after setIsCompareMode(true);        *)
(* handleCompareMarkerClick with the user data calls setIsCompareMode(true) *)
(* and sets its timer.                                                     *)
ClickUserData(i) ==
    /\ focus = "Home"
    /\ i \in 1..Len(home.clicks)
    /\ home.clicks[i].at = "userData"
    /\ LET run     == home.clicks[i]
           compare == run.handler = "handleCompareMarkerClick"
           mode    == IF compare THEN TRUE ELSE home.isCompareMode
       IN  \/ home' = [home EXCEPT !.isCompareMode = mode, !.clicks = RemoveAt(@, i)]
           \/ home' = [home EXCEPT !.isCompareMode = mode,
                                   !.clicks[i] = afterUserData(run)]
    /\ UNCHANGED <<engine, prefs, focus, nav, signup, change, reset, login, images>>

(* The timer of run i fires.  handleMarkerClick: setSelectedMarker(marker), *)
(* setApartmentDetails(null), then await fetchApartmentDetails.            *)
(* handleCompareMarkerClick: without a marker it opens the modal and       *)
(* returns; with one, setCompareMarker(marker),                            *)
(* setCompareApartmentDetails(null), then await fetchApartmentDetails.     *)
ClickTimer(i) ==
    /\ focus = "Home"
    /\ i \in 1..Len(home.clicks)
    /\ home.clicks[i].at = "timer"
    /\ LET run == home.clicks[i]
       IN  home' =
             IF run.handler = "handleMarkerClick"
             THEN [home EXCEPT !.selectedMarker = run.marker,
                               !.apartmentDetails = NoDetails,
                               !.clicks[i].at = "details"]
             ELSE IF run.marker = NoMarker
             THEN [home EXCEPT !.clicks = RemoveAt(@, i)]
             ELSE [home EXCEPT !.compareMarker = run.marker,
                               !.compareApartmentDetails = NoDetails,
                               !.clicks[i].at = "details"]
    /\ UNCHANGED <<engine, prefs, focus, nav, signup, change, reset, login, images>>

(* await fetchApartmentDetails of run i: it throws (catch), or the details *)
(* arrive, fetchRoomImage assigns or finds the image of the address and    *)
(* the details are set with it.                                            *)
ClickDetails(i) ==
    /\ focus = "Home"
    /\ i \in 1..Len(home.clicks)
    /\ home.clicks[i].at = "details"
    /\ images.pc = "idle"
    /\ LET run == home.clicks[i]
       IN  \/ /\ home' = [home EXCEPT !.clicks = RemoveAt(@, i)]
              /\ images' = images
           \/ \E out \in fetchRoomImage(images.stored, run.marker) :
                 /\ images' = [images EXCEPT
                        !.stored = out.stored,
                        !.ret = [of |-> "fetchRoomImage", address |-> run.marker,
                                 image |-> out.image, listings |-> <<>>]]
                 /\ LET details == [address |-> run.marker, imageUrl |-> out.image]
                    IN  home' = IF run.handler = "handleMarkerClick"
                                THEN [home EXCEPT !.apartmentDetails = details,
                                                  !.clicks = RemoveAt(@, i)]
                                ELSE [home EXCEPT !.compareApartmentDetails = details,
                                                  !.clicks = RemoveAt(@, i)]
    /\ UNCHANGED <<engine, prefs, focus, nav, signup, change, reset, login>>

(* The map after fetchApartments has answered with two listings.           *)
MapRows ==
    <<Row("1", PyNum(500000), "1.32", "103.93"), Row("2", PyNum(520000), "1.32", "103.93")>>

MapProfile == [preferred_price |-> PyNum(400000), salary |-> PyNum(4000),
               flat_type |-> "4-Room", cpf_oa_balance |-> PyNum(0)]

HomeWithMap ==
    [HomeInitial EXCEPT !.selectedEstate = "Bedok",
                        !.markers = markersOf(apartments(MapRows, MapProfile)),
                        !.answered = TRUE,
                        !.rows = MapRows,
                        !.profile = MapProfile]

InitCompare ==
    /\ EngineIdle
    /\ prefs = PrefsInitial
    /\ focus = "Home"
    /\ AuthInitial
    /\ home = HomeWithMap
    /\ images = ImagesInitial

NextCompare ==
    \/ MarkerClick
    \/ PressCompare
    \/ ExitCompareMode
    \/ SlideOut
    \/ \E i \in 1..MaxClicks : ClickUserData(i)
    \/ \E i \in 1..MaxClicks : ClickTimer(i)
    \/ \E i \in 1..MaxClicks : ClickDetails(i)

SpecCompare == InitCompare /\ [][NextCompare]_vars

InitHome ==
    /\ EngineIdle
    /\ prefs = PrefsInitial
    /\ focus = "Home"
    /\ AuthInitial
    /\ home = HomeInitial
    /\ images = ImagesInitial

NextHome == SelectEstate \/ UserDataResult \/ ApartmentsResponse

SpecHome == InitHome /\ [][NextHome]_vars

----------------------------------------------------------------------------
(* EditPreferencesScreen (src/unnamed/part_000): the saved preferences it  *)
(* loads when it mounts and the grant message it renders.                  *)

RECURSIVE formatAmount(_)
(* amount.toString().replace(/\B(?=(\d{3})+(?!\d))/g, ","), on the digits  *)
(* of a whole amount: a comma in front of every group of three digits      *)
(* counted from the right.                                                 *)
formatAmount(digits) ==
    IF Len(digits) <= 3 THEN digits
    ELSE formatAmount(SubSeq(digits, 1, Len(digits) - 3))
            \o <<",">> \o SubSeq(digits, Len(digits) - 2, Len(digits))

NotEligible == [grants |-> "none", amount |-> <<>>]

(* checkGrantEligibility: the grants named in the message and the amount   *)
(* printed after the $.                                                    *)
checkGrantEligibility(p) ==
    IF JsLe(parseFloat(p.salary), SinglesIncomeCeiling)
    THEN LET singlesGrant == IF p.hdbType = "5-Room" \/ p.hdbType = "Executive"
                             THEN SinglesGrantFiveRoom ELSE SinglesGrantSmallFlat
         IN  IF JsLe(parseFloat(p.salary), EnhancedIncomeCeiling)
             THEN [grants |-> "singles and enhanced",
                   amount |-> formatAmount(NatToDigits(singlesGrant + EnhancedGrant))]
             ELSE [grants |-> "singles", amount |-> formatAmount(NatToDigits(singlesGrant))]
    ELSE NotEligible

(* const grantEligibilityMessage = checkGrantEligibility(), on each render *)
grantEligibilityMessage == checkGrantEligibility(prefs)

(* The preferences a user can have saved: userData.salary.toString() and   *)
(* the flat and loan types of the form.                                    *)
SavedSalaryTexts ==
    {NatToDigits(n) : n \in {0, 4000, 4500, 4501, 6000, 7000, 7001}}
        \cup {S_7000_01, S_7000_001}

FormHdbTypes == {"1-Room", "2-Room", "3-Room", "4-Room", "5-Room", "Executive"}

FormLoanTypes == {"HDB Housing Loan", "DBS 5 Year Fixed Package"}

(* fetchUserData of the mount effect: the five setters with the saved      *)
(* preferences (a failed request only logs and changes no state).          *)
LoadUserData ==
    /\ focus = "Edit"
    /\ ~prefs.editMode
    /\ \E sal \in SavedSalaryTexts, hdb \in FormHdbTypes, loan \in FormLoanTypes :
          prefs' = [prefs EXCEPT !.salary = sal,
                                 !.cpfBalance = S_20000,
                                 !.hdbType = hdb,
                                 !.preferredPrice = S_200000,
                                 !.housingLoanType = loan]
    /\ UNCHANGED <<engine, focus, nav, signup, change, reset, login, home, images>>

InitGrantPanel ==
    /\ EngineIdle
    /\ prefs = PrefsInitial
    /\ focus = "Edit"
    /\ AuthInitial
    /\ home = HomeInitial
    /\ images = ImagesInitial

NextGrantPanel == LoadUserData

SpecGrantPanel == InitGrantPanel /\ [][NextGrantPanel]_vars

InitImages ==
    /\ EngineIdle
    /\ prefs = PrefsInitial
    /\ focus = "Home"
    /\ AuthInitial
    /\ home = HomeInitial
    /\ images = ImagesInitial

NextImages ==
    \/ \E a \in Addresses : FetchRoomImage(a)
    \/ OpenBookmarks
    \/ ForEachListing
    \/ DrawRandomIndex
    \/ TestRandomIndex
    \/ StoreUpdatedImages
    \/ BackToHome

SpecImages == InitImages /\ [][NextImages]_vars

(* The run of fetchSavedListings is synchronous between its awaits, and a  *)
(* random draw that has an unused index to hit hits one eventually.        *)
SpecImagesLive ==
    /\ SpecImages
    /\ WF_vars(ForEachListing)
    /\ WF_vars(DrawRandomIndex)
    /\ WF_vars(TestRandomIndex)
    /\ WF_vars(StoreUpdatedImages)
    /\ SF_vars(DrawRandomIndex /\ images'.randomIndex \notin images.usedIndices)

ScreensInitial ==
    /\ prefs = PrefsInitial
    /\ focus = ""
    /\ AuthInitial
    /\ home = HomeInitial
    /\ images = ImagesInitial

InitPrefs == EngineIdle /\ ScreensInitial

NextPrefs ==
    \/ PressEditPreferences
    \/ SetSalary
    \/ SetCpfBalance
    \/ SetPreferredPrice
    \/ SetHdbType
    \/ SetHousingLoanType
    \/ HandleSavePreferences
    \/ SavePreferencesResponse

SpecPrefs == InitPrefs /\ [][NextPrefs]_vars

InitAuth ==
    /\ EngineIdle
    /\ prefs = PrefsInitial
    /\ focus \in {"Signup", "Change", "Reset", "Login"}
    /\ AuthInitial
    /\ home = HomeInitial
    /\ images = ImagesInitial

NextAuth ==
    \/ SetSignupEmail
    \/ SetSignupPassword
    \/ SetSignupConfirmPassword
    \/ HandleSignup
    \/ SignupResponse
    \/ PressLoginLink
    \/ SetNewPassword
    \/ SetChangeConfirmPassword
    \/ HandleChangePassword
    \/ ChangePasswordResponse
    \/ SetResetEmail
    \/ SetVerificationCode
    \/ \E online \in BOOLEAN : HandleSendVerificationCode(online)
    \/ \E outcome \in VerifyUserOutcomes : VerifyUserResponse(outcome)
    \/ HandleVerifyCode
    \/ VerifyTimerFires
    \/ SetLoginEmail
    \/ SetLoginPassword
    \/ PressResetLink
    \/ \E online \in BOOLEAN : HandleLogin(online)
    \/ \E outcome \in {"credential", "falsy", "rejects"} : SignInResult(outcome)
    \/ \E outcome \in {"ok", "not ok", "throws"} : LoginResponse(outcome)
    \/ \E stored \in BOOLEAN : StoreAuthToken(stored)
    \/ \E stored \in BOOLEAN : StoreUserEmail(stored)
    \/ \E signedIn \in BOOLEAN : CustomTokenResult(signedIn)

SpecAuth == InitAuth /\ [][NextAuth]_vars

----------------------------------------------------------------------------
(* The calls the engine receives.                                          *)

FlatTypes == {"1-Room", "2-Room", "3-Room", "4-Room", "5-Room", "Executive", "", "Studio"}

LoanTypes == {"HDB Housing Loan", "DBS 5 Year Fixed Package", "Unrecognized", ""}

abc == <<"a", "b", "c">>

PreferredPrices ==
    {PyNum(k * 100000) : k \in -1..MaxPrefK} \cup {PyStr(abc)}

ListingPrices ==
    {PyNum(k * 5000 + e) : k \in 0..MaxListingK, e \in 0..1}
        \cup {PyNum(-5000), PyStr(abc), PyStr(<<>>),
              PyStr(<<"-", "5", "0", "0", "0">>),
              PyStr(<<"4", "6", "0", "0", "0", "0">>)}

CpfBalances ==
    {PyNum(k * 20000) : k \in -1..MaxCpfK} \cup {PyStr(abc)}

Salaries ==
    {PyNum(n) : n \in {-1, 4000, 4500, 4501, 6000, 7000, 7001}}
        \cup {PyStr(abc), PyStr(<<"4", "0", "0", "0">>), PyNone}

MarkerSalaries ==
    {PyNum(n) : n \in {-1, 4000, 4500, 7000, 7001}} \cup {PyStr(abc)}

Tenures == {JsNum(n) : n \in 0..MaxTenure} \cup {JsUndefined}

MarkerRequests ==
    [op : {"get_marker_color"}, preferred_price : PreferredPrices,
     listing_price : ListingPrices, salary : MarkerSalaries,
     flat_type : FlatTypes, cpf_oa_balance : CpfBalances]

GrantRequests == [op : {"calculate_grant"}, salary : Salaries, flat_type : FlatTypes]

RateRequests == [op : {"getInterestRate"}, loanType : LoanTypes, loanTenure : Tenures]

Init ==
    /\ req \in MarkerRequests \cup GrantRequests \cup RateRequests
    /\ pc = "call"
    /\ exc = ""
    /\ color = ""
    /\ grant = NoGrant
    /\ rate = ""
    /\ ScreensInitial

GetMarkerColor ==
    /\ pc = "call"
    /\ req.op = "get_marker_color"
    /\ LET r == get_marker_color(req.preferred_price, req.listing_price, req.salary,
                                 req.flat_type, req.cpf_oa_balance)
       IN  /\ exc' = r.exc
           /\ color' = r.color
           /\ grant' = r.grant
    /\ pc' = "done"
    /\ UNCHANGED <<req, rate>>
    /\ UNCHANGED screens

CalculateGrant ==
    /\ pc = "call"
    /\ req.op = "calculate_grant"
    /\ LET g == calculate_grant(req.salary, req.flat_type)
       IN  /\ exc' = g.exc
           /\ grant' = g
    /\ pc' = "done"
    /\ UNCHANGED <<req, color, rate>>
    /\ UNCHANGED screens

GetInterestRate ==
    /\ pc = "call"
    /\ req.op = "getInterestRate"
    /\ rate' = getInterestRate(req.loanType, req.loanTenure)
    /\ pc' = "done"
    /\ UNCHANGED <<req, exc, color, grant>>
    /\ UNCHANGED screens

Next == GetMarkerColor \/ CalculateGrant \/ GetInterestRate

Spec == Init /\ [][Next]_vars

----------------------------------------------------------------------------
(* Vocabulary of the properties.                                           *)

Done(op) == pc = "done" /\ req.op = op

Verdicts == {"green", "yellow", "red"}

(* A value is numeric when it is a number or a string that spells one.     *)
SpellsNat(s) == Len(s) > 0 /\ \A i \in 1..Len(s) : s[i] \in DigitChars

SpellsInt(s) == SpellsNat(s) \/ (Len(s) > 1 /\ s[1] = "-" /\ SpellsNat(Tail(s)))

IsNumeric(x) == x.type = "float" \/ (x.type = "str" /\ SpellsInt(x.str))

NumberOf(x) ==
    IF x.type = "float" THEN x.num
    ELSE IF SpellsNat(x.str) THEN DigitsToNat(x.str)
    ELSE 0 - DigitsToNat(Tail(x.str))

IsNegative(x) == IsNumeric(x) /\ NumberOf(x) < 0

(* The arguments of get_marker_color that the properties call numeric:     *)
(* prices and balance are numbers or numeric strings, salary is a number.  *)
PricesNumeric ==
    /\ IsNumeric(req.preferred_price)
    /\ IsNumeric(req.listing_price)
    /\ IsNumeric(req.cpf_oa_balance)

AllNumeric == PricesNumeric /\ req.salary.type = "float"

AllValid ==
    /\ AllNumeric
    /\ ~IsNegative(req.preferred_price)
    /\ ~IsNegative(req.listing_price)
    /\ ~IsNegative(req.cpf_oa_balance)
    /\ req.salary.num >= 0

AnyNegative ==
    \/ IsNegative(req.preferred_price)
    \/ IsNegative(req.listing_price)
    \/ IsNegative(req.cpf_oa_balance)
    \/ (req.salary.type = "float" /\ req.salary.num < 0)

P_ == NumberOf(req.preferred_price)
L_ == NumberOf(req.listing_price)
B_ == NumberOf(req.cpf_oa_balance)

(* The grant table: singles grant by flat type up to a salary of 7000,     *)
(* enhanced grant up to a salary of 4500.                                  *)
GrantTable(s, ft) ==
    (IF s > 7000 THEN 0
     ELSE IF ft \in {"2-Room", "3-Room", "4-Room"} THEN 40000
     ELSE IF ft = "5-Room" THEN 25000 ELSE 0)
    + (IF s <= 4500 THEN 60000 ELSE 0)

G_ == GrantTable(req.salary.num, req.flat_type)

Scenario3 ==
    /\ req.preferred_price = PyNum(500000)
    /\ req.listing_price = PyNum(460000)
    /\ req.salary = PyNum(4000)
    /\ req.flat_type = "4-Room"
    /\ req.cpf_oa_balance = PyNum(20000)

----------------------------------------------------------------------------
(* C1, as stated: with adjustedCeiling = preferredPrice - totalGrant -     *)
(* cpfBalance, valid numeric inputs give green if listingPrice <=          *)
(* adjustedCeiling, yellow if listingPrice <= adjustedCeiling * 1.05, red  *)
(* otherwise.                                                              *)
C1_AsStated ==
    (Done("get_marker_color") /\ AllValid) =>
        LET ceiling == P_ - G_ - B_
        IN  /\ exc = ""
            /\ color = IF L_ <= ceiling THEN "green"
                       ELSE IF 20 * L_ <= 21 * ceiling THEN "yellow"
                       ELSE "red"

(* C1, amended: for numeric inputs the ceiling is preferredPrice +         *)
(* totalGrant + cpfBalance; green if listingPrice <= ceiling, yellow if    *)
(* ceiling < listingPrice <= ceiling + 5% of preferredPrice, red           *)
(* otherwise; exactly one of the three is returned.                        *)
C1_Classification ==
    (Done("get_marker_color") /\ AllNumeric) =>
        LET ceiling == P_ + G_ + B_
        IN  /\ exc = ""
            /\ grant.total_grant = G_
            /\ color = IF L_ <= ceiling THEN "green"
                       ELSE IF 20 * L_ <= 20 * ceiling + P_ THEN "yellow"
                       ELSE "red"

(* The spec's scenario 3 has been classified: it is green.                 *)
C1_Witness == Done("get_marker_color") /\ Scenario3 /\ color = "green"

----------------------------------------------------------------------------
(* C2: get_marker_color never raises; it returns gray if any of            *)
(* preferredPrice, listingPrice, salary, cpfBalance is non-numeric, and    *)
(* one of green, yellow, red for valid numeric inputs.                     *)
C2_GrayTotality ==
    Done("get_marker_color") =>
        /\ exc = ""
        /\ (~PricesNumeric \/ req.salary.type # "float") => color = "gray"
        /\ AllValid => color \in Verdicts

----------------------------------------------------------------------------
(* C3, as stated: a negative numeric input gives gray.                     *)
C3_AsStated ==
    (Done("get_marker_color") /\ AllNumeric /\ AnyNegative) => color = "gray"

(* C3, amended: a negative numeric input is parsed like any other number:  *)
(* when all four inputs are numeric and one is negative the result is      *)
(* green, yellow or red; gray is returned only when preferredPrice,        *)
(* listingPrice or cpfBalance does not parse as a number.                  *)
C3_NegativeIsClassified ==
    Done("get_marker_color") =>
        /\ (AllNumeric /\ AnyNegative) => (exc = "" /\ color \in Verdicts)
        /\ color = "gray" => ~PricesNumeric

(* A call with a negative listing price given as a string was classified.  *)
C3_Witness ==
    /\ Done("get_marker_color")
    /\ AllNumeric
    /\ req.listing_price = PyStr(<<"-", "5", "0", "0", "0">>)
    /\ color = "green"

----------------------------------------------------------------------------
(* C4, as stated: the singles grant is 40000 for 2-, 3- and 4-Room and     *)
(* 25000 for 5-Room, for every salary.                                     *)
C4_AsStated ==
    (Done("calculate_grant") /\ req.salary.type = "float") =>
        /\ req.flat_type \in {"2-Room", "3-Room", "4-Room"} => grant.singles_grant = 40000
        /\ req.flat_type = "5-Room" => grant.singles_grant = 25000

(* C4, amended: the singles grant is 40000 for 2-, 3- and 4-Room and 25000 *)
(* for 5-Room for every salary <= 7000, and 0 for every salary > 7000.     *)
C4_SinglesGrant ==
    (Done("calculate_grant") /\ req.salary.type = "float") =>
        /\ exc = ""
        /\ (req.salary.num <= 7000 /\ req.flat_type \in {"2-Room", "3-Room", "4-Room"})
              => grant.singles_grant = 40000
        /\ (req.salary.num <= 7000 /\ req.flat_type = "5-Room")
              => grant.singles_grant = 25000
        /\ req.salary.num > 7000 => grant.singles_grant = 0

(* The grant of a 4-Room buyer just above the income ceiling was computed. *)
C4_Witness ==
    /\ Done("calculate_grant")
    /\ req.salary = PyNum(7001)
    /\ req.flat_type = "4-Room"
    /\ grant.singles_grant = 0

----------------------------------------------------------------------------
(* C5: for every flat type outside 2-Room .. 5-Room the singles grant is 0 *)
(* and no error is raised, for every salary.                               *)
C5_OtherFlatTypes ==
    (/\ Done("calculate_grant")
     /\ req.salary.type = "float"
     /\ req.flat_type \notin {"2-Room", "3-Room", "4-Room", "5-Room"})
        => (exc = "" /\ grant.singles_grant = 0)

(* The grant of an Executive buyer under the income ceiling was computed.  *)
C5_Witness ==
    /\ Done("calculate_grant")
    /\ req.salary = PyNum(4000)
    /\ req.flat_type = "Executive"
    /\ grant.singles_grant = 0
    /\ grant.total_grant = 60000

----------------------------------------------------------------------------
(* C6: the enhanced grant is 60000 for every salary <= 4500 and 0 for      *)
(* every salary > 4500, whatever the flat type.                            *)
C6_EnhancedGrant ==
    (Done("calculate_grant") /\ req.salary.type = "float") =>
        grant.enhanced_grant = IF req.salary.num <= 4500 THEN 60000 ELSE 0

(* The grant at a salary of exactly 4500 was computed.                     *)
C6_Witness ==
    /\ Done("calculate_grant")
    /\ req.salary = PyNum(4500)
    /\ grant.enhanced_grant = 60000

----------------------------------------------------------------------------
(* C7: totalGrant = singlesGrantAmount + enhancedGrantAmount, both         *)
(* components are >= 0, and totalGrant is one of 0, 25000, 40000, 60000,   *)
(* 85000, 100000.                                                          *)
C7_GrantSum ==
    (pc = "done" /\ req.op \in {"calculate_grant", "get_marker_color"} /\ exc = "") =>
        /\ grant.total_grant = grant.singles_grant + grant.enhanced_grant
        /\ grant.singles_grant >= 0
        /\ grant.enhanced_grant >= 0
        /\ grant.total_grant \in {0, 25000, 40000, 60000, 85000, 100000}

(* calculate_grant(4000, "5-Room") returned 85000.                         *)
C7_Witness ==
    /\ Done("calculate_grant")
    /\ req.salary = PyNum(4000)
    /\ req.flat_type = "5-Room"
    /\ grant = [exc |-> "", singles_grant |-> 25000, enhanced_grant |-> 60000,
                total_grant |-> 85000]

----------------------------------------------------------------------------
(* C8, as stated: when preferredPrice - totalGrant - cpfBalance is         *)
(* negative, every non-negative listingPrice is red.                       *)
C8_AsStated ==
    (Done("get_marker_color") /\ AllValid /\ P_ - G_ - B_ < 0) => color = "red"

(* C8, amended: when the adjusted price listingPrice - totalGrant -        *)
(* cpfBalance is negative, every non-negative preferredPrice gives green:  *)
(* neither yellow nor red is reachable, the adjusted price is not clamped. *)
C8_NegativeAdjustedPrice ==
    (Done("get_marker_color") /\ AllValid /\ L_ - G_ - B_ < 0) => color = "green"

(* A listing cheaper than grant plus CPF balance was classified.           *)
C8_Witness ==
    /\ Done("get_marker_color")
    /\ AllValid
    /\ L_ - G_ - B_ < 0
    /\ P_ = 0
    /\ color = "green"

----------------------------------------------------------------------------
----------------------------------------------------------------------------
(* C10: for the DBS 5 Year Fixed Package, every tenure <= 5 gives the      *)
(* five-year description and every tenure > 5 the two-segment one.         *)
C10_DbsRate ==
    (/\ Done("getInterestRate")
     /\ req.loanType = "DBS 5 Year Fixed Package"
     /\ req.loanTenure.type = "number") =>
        rate = IF req.loanTenure.num <= 5
               THEN "2.5% per annum for the first 5 years"
               ELSE "2.5% per annum for the first 5 years, then 4.48% per annum"

(* The rate of the DBS package at a tenure of exactly 5 years was resolved. *)
C10_Witness ==
    /\ Done("getInterestRate")
    /\ req.loanType = "DBS 5 Year Fixed Package"
    /\ req.loanTenure = JsNum(5)
    /\ rate = "2.5% per annum for the first 5 years"

----------------------------------------------------------------------------
(* C11: for the HDB Housing Loan the rate is "2.6% per annum" for every    *)
(* tenure value, a missing tenure included.                                *)
C11_HdbRate ==
    (Done("getInterestRate") /\ req.loanType = "HDB Housing Loan") =>
        rate = "2.6% per annum"

(* The HDB rate was resolved with the tenure the Home screen passes, which *)
(* is undefined.                                                           *)
C11_Witness ==
    /\ Done("getInterestRate")
    /\ req.loanType = "HDB Housing Loan"
    /\ req.loanTenure = JsUndefined
    /\ rate = "2.6% per annum"

----------------------------------------------------------------------------
(* C12: getInterestRate returns one of its four descriptions for every     *)
(* (loanType, tenure) pair and raises nothing; every loan type other than  *)
(* the two known ones gives "Unknown Loan Type".                           *)
C12_RateTotality ==
    Done("getInterestRate") =>
        /\ exc = ""
        /\ rate \in {"2.6% per annum",
                     "2.5% per annum for the first 5 years",
                     "2.5% per annum for the first 5 years, then 4.48% per annum",
                     "Unknown Loan Type"}
        /\ req.loanType \notin {"HDB Housing Loan", "DBS 5 Year Fixed Package"}
              => rate = "Unknown Loan Type"

(* resolveLoanRate("Unrecognized", 5) returned "Unknown Loan Type".        *)
C12_Witness ==
    /\ Done("getInterestRate")
    /\ req.loanType = "Unrecognized"
    /\ req.loanTenure = JsNum(5)
    /\ rate = "Unknown Loan Type"

----------------------------------------------------------------------------
(* C14: every listing returned for an estate carries the classification    *)
(* computed for its own price, and the icon of its marker is a function of *)
(* that classification alone: green, yellow and red select the green,      *)
(* yellow and red images, every other value (gray included) the default    *)
(* marker.                                                                 *)
C14_IconOf ==
    [c \in {"green", "yellow", "red", "gray"} |->
        CASE c = "green"  -> "../../assets/marker-green.png"
          [] c = "yellow" -> "../../assets/marker-yellow.png"
          [] c = "red"    -> "../../assets/marker-red.png"
          [] OTHER        -> "default"]

C14_MarkerOfOwnPrice ==
    /\ Len(home.markers) = Len(home.rows)
    /\ \A i \in 1..Len(home.markers) :
          LET own == get_marker_color(home.profile.preferred_price,
                                      home.rows[i].resale_price, home.profile.salary,
                                      home.profile.flat_type,
                                      home.profile.cpf_oa_balance).color
          IN  /\ own \in DOMAIN C14_IconOf
              /\ home.markers[i].color = own
              /\ home.rows[i].latitude # "" =>
                    /\ i \in DOMAIN MarkerIcons(home.markers)
                    /\ MarkerIcons(home.markers)[i] = C14_IconOf[own]

(* Two listings of an estate, one that cannot be evaluated next to one     *)
(* within the tolerance, are on the map with the default and the yellow    *)
(* icon.                                                                   *)
C14_Witness ==
    /\ home.answered
    /\ Len(home.markers) = 2
    /\ home.markers[1].color = "gray"
    /\ home.markers[2].color = "yellow"
    /\ home.markers[2].resale_price = <<"5", "2", "0", "0", "0", "0">>
    /\ MarkerIcons(home.markers) = <<"default", "../../assets/marker-yellow.png">>

----------------------------------------------------------------------------
(* C15: handleSavePreferences sends the POST only when all five fields are *)
(* non-empty, salary, cpfBalance and preferredPrice are decimals with at   *)
(* most 2 fraction digits and > 0, preferredPrice >= 200000, and the loan  *)
(* is not the HDB loan with salary > 7000; otherwise it sets a non-empty   *)
(* errorMessage, sends nothing and leaves editMode true.                   *)

(* digits, optionally followed by a point and one or two digits            *)
IsDecimal2(s) ==
    \E k \in 1..Len(s) :
        /\ \A i \in 1..k : s[i] \in DigitChars
        /\ \/ k = Len(s)
           \/ /\ s[k + 1] = "."
              /\ Len(s) - (k + 1) \in 1..2
              /\ \A i \in (k + 2)..Len(s) : s[i] \in DigitChars

(* the value of such a text, in hundredths                                 *)
Decimal2Value(s) ==
    LET k == CHOOSE j \in 1..Len(s) : j = Len(s) \/ s[j + 1] = "."
        f == SubSeq(s, k + 2, Len(s))
    IN  100 * DigitsToNat(SubSeq(s, 1, k))
          + (IF Len(f) = 1 THEN 10 * DigitsToNat(f) ELSE DigitsToNat(f))

SaveAllowed ==
    /\ prefs.salary # <<>>
    /\ prefs.cpfBalance # <<>>
    /\ prefs.preferredPrice # <<>>
    /\ prefs.hdbType # ""
    /\ prefs.housingLoanType # ""
    /\ IsDecimal2(prefs.salary) /\ Decimal2Value(prefs.salary) > 0
    /\ IsDecimal2(prefs.cpfBalance) /\ Decimal2Value(prefs.cpfBalance) > 0
    /\ IsDecimal2(prefs.preferredPrice) /\ Decimal2Value(prefs.preferredPrice) >= 20000000
    /\ ~(prefs.housingLoanType = "HDB Housing Loan" /\ Decimal2Value(prefs.salary) > 700000)

C15_SaveGuard ==
    [][/\ Len(prefs'.posts) > Len(prefs.posts) => (HandleSavePreferences /\ SaveAllowed)
       /\ (HandleSavePreferences /\ SaveAllowed) =>
              /\ prefs'.posts = Append(prefs.posts,
                    [salary            |-> 10 * Decimal2Value(prefs.salary),
                     cpf_balance       |-> 10 * Decimal2Value(prefs.cpfBalance),
                     hdb_type          |-> prefs.hdbType,
                     preferred_price   |-> 10 * Decimal2Value(prefs.preferredPrice),
                     housing_loan_type |-> prefs.housingLoanType])
       /\ (HandleSavePreferences /\ ~SaveAllowed) =>
              /\ prefs'.posts = prefs.posts
              /\ prefs'.errorMessage # ""
              /\ prefs'.editMode
      ]_vars

(* A POST is in flight for a DBS borrower with a salary of 7000.01, and    *)
(* the form has since been changed to a price below the minimum.           *)
C15_Witness ==
    /\ Len(prefs.posts) = 1
    /\ prefs.posts[1].salary = 7000010
    /\ prefs.posts[1].preferred_price = 200000000
    /\ prefs.preferredPrice = S_199999_99
    /\ prefs.errorMessage = ErrMinPrice
    /\ prefs.editMode

----------------------------------------------------------------------------
(* C16: handleSignup and handleChangePassword send their requests          *)
(* (/signup, /reset-password) only when the password equals its            *)
(* confirmation, has at least 8 characters and contains an uppercase       *)
(* letter, a lowercase letter, a digit and one of the listed special       *)
(* characters; otherwise the handler sends nothing and does not navigate   *)
(* to Login.  A handler navigates to Login only while answering a request  *)
(* it sent.                                                                *)

StrongPassword(p, c) ==
    /\ p = c
    /\ Len(p) >= 8
    /\ \E i \in 1..Len(p) : p[i] \in UpperChars
    /\ \E i \in 1..Len(p) : p[i] \in LowerChars
    /\ \E i \in 1..Len(p) : p[i] \in DigitChars
    /\ \E i \in 1..Len(p) : p[i] \in SpecialChars

C16_PasswordGate ==
    [][/\ (signup.inflight = <<>> /\ signup'.inflight # <<>>) =>
              /\ HandleSignup
              /\ StrongPassword(signup.password, signup.confirmPassword)
              /\ signup'.inflight[1].password = signup.password
       /\ (change.inflight = <<>> /\ change'.inflight # <<>>) =>
              /\ HandleChangePassword
              /\ StrongPassword(change.newPassword, change.confirmPassword)
              /\ change'.inflight[1].new_password = change.newPassword
       /\ (HandleSignup /\ ~StrongPassword(signup.password, signup.confirmPassword)) =>
              signup'.inflight = <<>> /\ nav' = nav
       /\ (HandleChangePassword
             /\ ~StrongPassword(change.newPassword, change.confirmPassword)) =>
              change'.inflight = <<>> /\ nav' = nav
       /\ (nav' # nav /\ nav'.by = "handleSignup") =>
              signup.inflight # <<>> /\ nav'.to = "Login"
       /\ (nav' # nav /\ nav'.by = "handleChangePassword") =>
              change.inflight # <<>> /\ nav'.to = "Login"
      ]_vars

(* The sign-up handler navigated to Login for a request it sent, and the   *)
(* form now holds a password without a digit that nothing was sent for.    *)
C16_Witness ==
    /\ focus = "Signup"
    /\ nav = Navigate("Login", <<>>, "handleSignup")
    /\ signup.password = PasswordText(5, <<"Q", "w", "?">>)
    /\ signup.confirmPassword = signup.password
    /\ signup.email = E_gmail
    /\ signup.inflight = <<>>
    /\ ~signup.loading

----------------------------------------------------------------------------
(* C17: on the reset-password screen, navigation to Change happens only    *)
(* after isCodeSent is true and the entered code equals the generated      *)
(* code: the timer that navigates is started only by handleVerifyCode, on  *)
(* a screen whose code was sent, with the field equal to the six-digit     *)
(* code that was generated; a different code starts no timer and changes   *)
(* nothing.                                                                *)
C17_VerifiedNavigation ==
    [][/\ (reset.timer = <<>> /\ reset'.timer # <<>>) =>
              /\ HandleVerifyCode
              /\ reset.isCodeSent
              /\ reset.generatedCode \in GeneratedCodes
              /\ reset.verificationCode = reset.generatedCode
       /\ (nav' # nav /\ nav'.to = "Change") =>
              /\ VerifyTimerFires
              /\ reset.isCodeSent
              /\ reset.verifying
       /\ (HandleVerifyCode /\ reset.verificationCode # reset.generatedCode) =>
              reset' = reset /\ nav' = nav
      ]_vars

(* The timer of a verified code has navigated to Change, and the field has *)
(* since been changed to a five-digit text.                                *)
C17_Witness ==
    /\ nav.to = "Change"
    /\ nav.by = "handleVerifyCode"
    /\ reset.generatedCode = K_999999
    /\ reset.verificationCode = K_99999
    /\ reset.timer = <<>>

(* C18: handleSendVerificationCode generates a code, e-mails it and sets   *)
(* isCodeSent only when the email is not empty, the device is online and   *)
(* /verify-user answers OK with exists = true; in every other case no code *)
(* is generated and isCodeSent stays false.                                *)
C18_Accepted(outcome) == ~outcome.throws /\ outcome.ok /\ outcome.exists = "true"

C18_SendCodeGate ==
    [][/\ (reset.inflight = <<>> /\ reset'.inflight # <<>>) =>
              /\ HandleSendVerificationCode(TRUE)
              /\ reset.email # <<>>
              /\ reset'.inflight[1].email = reset.email
       /\ (\/ reset'.generatedCode # reset.generatedCode
           \/ reset'.isCodeSent # reset.isCodeSent
           \/ reset'.sent # reset.sent) =>
              /\ reset.inflight # <<>>
              /\ reset.inflight[1].email # <<>>
              /\ \E outcome \in VerifyUserOutcomes :
                    C18_Accepted(outcome) /\ VerifyUserResponse(outcome)
              /\ reset'.generatedCode \in GeneratedCodes
              /\ reset'.isCodeSent
              /\ reset'.sent = <<[to_email |-> reset.inflight[1].email,
                                  code     |-> reset'.generatedCode]>>
       /\ \A outcome \in VerifyUserOutcomes :
              (VerifyUserResponse(outcome) /\ ~C18_Accepted(outcome)) =>
                  /\ reset'.generatedCode = <<>>
                  /\ ~reset'.isCodeSent
                  /\ reset'.sent = <<>>
       /\ \A online \in BOOLEAN :
              (HandleSendVerificationCode(online) /\ (~online \/ reset.email = <<>>)) =>
                  /\ reset'.inflight = <<>>
                  /\ reset'.generatedCode = <<>>
                  /\ ~reset'.isCodeSent
                  /\ reset'.sent = <<>>
      ]_vars

(* A code was generated and e-mailed to the address of the request.        *)
C18_Witness ==
    /\ reset.isCodeSent
    /\ reset.generatedCode = K_100000
    /\ reset.sent = <<[to_email |-> E_gmail, code |-> K_100000]>>
    /\ ~reset.loading

(* C19: handleLogin navigates to Home only after, in this order, the       *)
(* Firebase email/password sign-in, an OK answer of /login, storing        *)
(* authToken and userEmail in AsyncStorage and signInWithCustomToken have  *)
(* all succeeded; a run that ends before that does not navigate.           *)
C19_LoginOrder ==
    <<"signIn", "login", "authToken", "userEmail", "customToken">>

C19_HomeAfterAllSteps ==
    [][/\ (nav' # nav /\ nav'.by = "handleLogin") =>
              /\ nav'.to = "Home"
              /\ login.pc = "customToken"
              /\ login'.done = C19_LoginOrder
              /\ login.token \in Tokens
              /\ login'.storage = [authToken |-> login.token,
                                   userEmail |-> login.call.email]
       /\ (login.pc # "idle" /\ login'.pc = "idle" /\ login'.done # C19_LoginOrder) =>
              nav' = nav
      ]_vars

(* A login went through all five steps and navigated to Home.              *)
C19_Witness ==
    /\ nav = Navigate("Home", <<>>, "handleLogin")
    /\ login.pc = "idle"
    /\ login.done = C19_LoginOrder
    /\ login.storage = [authToken |-> "token-2", userEmail |-> E_gmail]

(* C20: every run of handleSignup, handleLogin, handleChangePassword and   *)
(* handleSendVerificationCode ends with loading false: the loading flag of *)
(* a screen is true only while its handler is suspended at an await.       *)
C20_LoadingCleared ==
    /\ signup.loading => signup.inflight # <<>>
    /\ change.loading => change.inflight # <<>>
    /\ reset.loading  => reset.inflight # <<>>
    /\ login.loading  => login.pc # "idle"

(* The sign-up handler has been answered and the form has been edited      *)
(* since.                                                                  *)
C20_Witness ==
    /\ nav.by = "handleSignup"
    /\ signup.inflight = <<>>
    /\ ~signup.loading
    /\ signup.email = E_other

----------------------------------------------------------------------------
(* C21: after any sequence of calls of fetchRoomImage and                  *)
(* fetchSavedListings that do not overlap, the stored globalAssignedImages *)
(* gives no image index to two different addresses, and fetchRoomImage     *)
(* returns null without changing the map when every image index is         *)
(* already assigned.                                                       *)

NoSharedIndex(m) ==
    \A a, b \in Addresses : (a # b /\ m[a] # Absent) => m[a] # m[b]

EveryIndexAssigned(m) == \A i \in ImageIndices : \E a \in Addresses : m[a] = i

C22_Terminates ==
    [](images.pc # "idle" => <>(images.pc = "idle" /\ images.ret.of = "fetchSavedListings"))

----------------------------------------------------------------------------
(* C23: a marker click made while compare mode is on is handled by the     *)
(* compare handler only: every step of its handling leaves selectedMarker  *)
(* and apartmentDetails unchanged and is a step of                         *)
(* handleCompareMarkerClick, which may change compareMarker and            *)
(* compareApartmentDetails.                                                *)
C23_CompareClickFrame ==
    [][\A i \in 1..MaxClicks :
          (/\ i <= Len(home.clicks)
           /\ home.clicks[i].origin = "marker"
           /\ home.clicks[i].isCompareMode
           /\ ClickUserData(i) \/ ClickTimer(i) \/ ClickDetails(i)) =>
              /\ home'.selectedMarker = home.selectedMarker
              /\ home'.apartmentDetails = home.apartmentDetails
              /\ Len(home'.clicks) = Len(home.clicks) =>
                    home'.clicks[i].handler = "handleCompareMarkerClick"
              /\ home.clicks[i].at # "userData" =>
                    home.clicks[i].handler = "handleCompareMarkerClick"
      ]_vars

(* The first listing is selected, and the second one, clicked in compare   *)
(* mode, is shown next to it with its own image.                           *)
C23_Witness ==
    /\ home.isCompareMode
    /\ home.selectedMarker = "1 Bedok Ave"
    /\ home.apartmentDetails.address = "1 Bedok Ave"
    /\ home.compareMarker = "2 Bedok Ave"
    /\ home.compareApartmentDetails.address = "2 Bedok Ave"
    /\ home.compareApartmentDetails.imageUrl \in ImageIndices
    /\ home.compareApartmentDetails.imageUrl # home.apartmentDetails.imageUrl
    /\ home.clicks = <<>>

----------------------------------------------------------------------------
(* C25: for every salary and every flat type of the preferences form, the  *)
(* grant amount that checkGrantEligibility shows on the Edit Preferences   *)
(* screen equals the total grant of calculate_grant for the same salary    *)
(* and flat type (whole-dollar salaries; nothing is shown for no grant).   *)
C25_ShownGrantIsTotalGrant ==
    (prefs.hdbType \in FormHdbTypes /\ IsDigits(prefs.salary)) =>
        LET total == calculate_grant(PyNum(DigitsToNat(prefs.salary)),
                                     prefs.hdbType).total_grant
        IN  grantEligibilityMessage.amount =
                IF total = 0 THEN <<>> ELSE formatAmount(NatToDigits(total))

----------------------------------------------------------------------------
(* C24: in the reset flow, the email handed to the Change screen is always *)
(* an email that /verify-user confirmed and to which the verification code *)
(* was sent, also when the email field was edited after the code was sent. *)
C24_ChangeGetsVerifiedEmail ==
    (nav.to = "Change" /\ nav.by = "handleVerifyCode") =>
        \E i \in 1..Len(reset.sent) : reset.sent[i].to_email = nav.email

----------------------------------------------------------------------------
(* The order of the classifications: green is better than yellow, yellow   *)
(* better than red.                                                        *)
Rank(c) == IF c = "green" THEN 3 ELSE IF c = "yellow" THEN 2 ELSE 1

(* The amounts by which a price or a balance is raised in the comparisons: *)
(* the steps between neighbouring listing prices and some longer strides.  *)
Raises == {1, 4999, 5000, 5001, 20000, 100000, 460000}

ColorAtListingPrice(l) ==
    get_marker_color(req.preferred_price, PyNum(l), req.salary, req.flat_type,
                     req.cpf_oa_balance).color

ColorAtCpfBalance(b) ==
    get_marker_color(req.preferred_price, req.listing_price, req.salary, req.flat_type,
                     PyNum(b)).color

(* C26: for a fixed valid profile the classification is monotone in the    *)
(* listing price: a dearer listing is never classified better than a       *)
(* cheaper one (green better than yellow better than red).                 *)
C26_MonotoneInListingPrice ==
    (Done("get_marker_color") /\ AllValid) =>
        \A d \in Raises : Rank(ColorAtListingPrice(L_ + d)) <= Rank(color)

(* A listing on the green edge was classified: one dollar more is yellow,  *)
(* 5001 dollars more is red.                                               *)
C26_Witness ==
    /\ Done("get_marker_color")
    /\ AllValid
    /\ G_ > 0 /\ B_ > 0
    /\ color = "green"
    /\ ColorAtListingPrice(L_ + 1) = "yellow"
    /\ ColorAtListingPrice(L_ + 5001) = "red"

----------------------------------------------------------------------------
(* C27, as stated: for fixed preferredPrice, listingPrice, salary and      *)
(* flatType, raising cpfBalance never improves the classification.         *)
C27_AsStated ==
    (Done("get_marker_color") /\ AllValid) =>
        \A d \in Raises : Rank(ColorAtCpfBalance(B_ + d)) <= Rank(color)

(* C27, amended: for fixed preferredPrice, listingPrice, salary and        *)
(* flatType, raising cpfBalance never worsens the classification: the      *)
(* balance is taken off the listing price, not off the preferred price.    *)
C27_CpfNeverWorsens ==
    (Done("get_marker_color") /\ AllValid) =>
        \A d \in Raises : Rank(ColorAtCpfBalance(B_ + d)) >= Rank(color)

(* A red listing was classified that a CPF balance 20000 higher makes      *)
(* green.                                                                  *)
C27_Witness ==
    /\ Done("get_marker_color")
    /\ AllValid
    /\ P_ > 0
    /\ color = "red"
    /\ ColorAtCpfBalance(B_ + 20000) = "green"

====
